---- MODULE Spec2Model ----
(***************************************************************************)
(* asynqp: the Synchroniser of routing.py (await / notify / killall) and   *)
(* the close paths of connection.py (Connection.close, ConnectionActor).   *)
(*                                                                         *)
(* Two specifications share the Synchroniser operators:                    *)
(*   SyncSpec  one Synchroniser driven by arbitrary await / cancel /       *)
(*             notify / killall calls;                                     *)
(*   ConnSpec  an open connection: close() tasks, the frames of channel 0  *)
(*             and the event loop's queue of scheduled callbacks.          *)
(***************************************************************************)
EXTENDS Integers, Sequences, FiniteSets, TLC

None == "None"

\* ------------------------------------------------------------------ bounds
MaxAwaits == 3       \* futures created by await in SyncSpec
MaxNotifies == 2     \* notify calls in SyncSpec
MaxFrames == 2       \* frames the server sends on channel 0 in ConnSpec
MaxCloseTasks == 2   \* tasks that call Connection.close() in ConnSpec
MaxHandshakeFrames == 4   \* frames the server sends in HandshakeSpec
MaxChannelWaits == 1      \* operations and get()s waiting on one channel in ChannelSpec
MaxWireFrames == 2        \* frames in the server's byte stream in WireSpec
MaxChunks == 4            \* data_received calls in WireSpec
MaxBools == 9             \* arguments of pack_bools in PackSpec
MaxTime == 6              \* seconds that pass in MonitorSpec
MaxOpens == 4             \* open_channel calls in IdSpec
MaxDeliveries == 3        \* deliveries to the queued consumer in ConsumerSpec
MaxGets == 3              \* get()/getmany() calls in ConsumerSpec

\* ------------------------------------------------------------ vocabularies
\* method classes of spec.py that key Synchroniser._futures
SyncMethods == {"BasicGetOK", "BasicGetEmpty"}
Methods ==
    SyncMethods \cup {"ConnectionStart", "ConnectionTune", "ConnectionOpenOK",
                      "ConnectionCloseOK"}
\* the expected_methods tuples handed to await in SyncSpec: one method, or
\* the pair basic_get waits for
Tuples == {<<"BasicGetOK">>, <<"BasicGetEmpty">>,
           <<"BasicGetOK", "BasicGetEmpty">>}
\* what the transport can be lost with (the exc of connection_lost)
Causes == {"ConnectionResetError", "HeartbeatTimeout"}
\* exceptions.ConnectionLostError(message, exc): the instance keeps exc as its
\* original_exc
ConnectionLostError(exc) == "ConnectionLostError(" \o exc \o ")"
original_exc(e) == CHOOSE exc \in Causes : e = ConnectionLostError(exc)
\* exceptions of exceptions.py handed to killall
AlreadyClosed ==
    {"ClientConnectionClosed", "ServerConnectionClosed"}
        \cup {ConnectionLostError(exc) : exc \in Causes}
\* the exceptions handed to killall in SyncSpec
SyncExcs == {"ClientConnectionClosed", "ServerConnectionClosed"}

\* ------------------------------------------------------- methods and frames
\* the methods of spec.py, as connection.py and the server construct them
ConnectionStart == [name |-> "ConnectionStart"]
ConnectionStartOK(client_properties, mechanism, response, locale) ==
    [name |-> "ConnectionStartOK", client_properties |-> client_properties,
     mechanism |-> mechanism, response |-> response, locale |-> locale]
ConnectionTune(channel_max, frame_max, heartbeat) ==
    [name |-> "ConnectionTune", channel_max |-> channel_max,
     frame_max |-> frame_max, heartbeat |-> heartbeat]
ConnectionTuneOK(channel_max, frame_max, heartbeat) ==
    [name |-> "ConnectionTuneOK", channel_max |-> channel_max,
     frame_max |-> frame_max, heartbeat |-> heartbeat]
ConnectionOpen(virtual_host, capabilities, insist) ==
    [name |-> "ConnectionOpen", virtual_host |-> virtual_host,
     capabilities |-> capabilities, insist |-> insist]
ConnectionOpenOK == [name |-> "ConnectionOpenOK"]
ConnectionClose(reply_code, reply_text, class_id, method_id) ==
    [name |-> "ConnectionClose", reply_code |-> reply_code,
     reply_text |-> reply_text, class_id |-> class_id, method_id |-> method_id]
ConnectionCloseOK == [name |-> "ConnectionCloseOK"]

\* frames.MethodFrame(channel_id, payload), frames.PoisonPillFrame(exception)
MethodFrame(channel_id, payload) ==
    [type |-> "MethodFrame", channel_id |-> channel_id, payload |-> payload]
PoisonPillFrame(exception) == [type |-> "PoisonPillFrame", exception |-> exception]

\* Sender.send_method: what protocol.send_method is handed
send_method(channel_id, method) == [channel_id |-> channel_id, method |-> method]
\* ConnectionMethodSender, a Sender of channel 0
send_Close(status_code, message, class_id, method_id) ==
    send_method(0, ConnectionClose(status_code, message, class_id, method_id))
send_CloseOK == send_method(0, ConnectionCloseOK)

\* the connection_info open_connection is called with
ConnectionInfo == [username |-> "guest", password |-> "guest", virtual_host |-> "/"]

\* the ConnectionClose a server closes the connection with
ServerClose == ConnectionClose(320, "CONNECTION_FORCED", 0, 0)
\* the method frames the server sends on channel 0 of an open connection
ServerFrames ==
    {MethodFrame(0, ServerClose), MethodFrame(0, ConnectionCloseOK),
     MethodFrame(0, ConnectionStart)}
Tasks == 1..MaxCloseTasks
\* the ids of the channels open in ChannelSpec
Channels == {1, 2}
MaxChannelId == CHOOSE c \in Channels : \A d \in Channels : d <= c

VARIABLES
    futures,          \* Synchroniser._futures: method -> deque of (fut, methods)
    connection_exc,   \* Synchroniser.connection_exc
    futs,             \* the asyncio.Future objects made by await, by identity
    closing,          \* Connection._closing
    close_waiters,    \* Connection._close_waiters (its length)
    sent,             \* the methods handed to the transport on channel 0
    sender_exc,       \* the exception the sender was killed with
    hb,               \* protocol.heartbeat_monitor
    transport_closed, \* calls of protocol.transport.close()
    ready,            \* the event loop's queue of call_soon callbacks
    pc,               \* where each task calling Connection.close() is
    taskFut,          \* the future each suspended close() awaits
    nframes,          \* frames the server has sent
    lost,             \* the exc the transport was lost with (None while it is up)
    ended,            \* history: the server sent ConnectionClose or the transport was lost
    awaitLog,         \* history: expected_methods of every await, by future
    calls,            \* history: the notify calls made in SyncSpec
    matched,          \* history: per method, the notify calls that popped a waiter
    dropped,          \* history: per method, whether a notify found no waiter
    oc,               \* where the task running open_connection is
    ocFut,            \* the future the suspended open_connection awaits
    reader,           \* the QueuedReader of channel 0
    handlers,         \* Dispatcher.handlers: channel id -> handler
    connection_info,  \* the connection_info dict
    arrived,          \* history: the frames the server has sent during the handshake
    channels,         \* the open channels: id -> its Synchroniser and pending get()s
    wire,             \* the server's byte stream: the frames it is made of, the bytes
                      \* still to arrive, the chunks delivered so far
    engine,           \* the protocol: its receive buffer, the exception data_received raised
    dispatched,       \* history: the frames handed to Dispatcher.dispatch
    bools,            \* the arguments of pack_bools
    packed,           \* the octets pack_bools returned
    consumer,         \* a QueuedConsumer: its buffer, its no_ack flag, its state
    gets,             \* the futures of the get() and getmany() calls, by identity
    returned,         \* history: the deliveries get() and getmany() have returned
    monitor           \* the HeartbeatMonitor: its interval, the time since the last frame

syncVars == <<futures, connection_exc, futs>>
connVars == <<closing, close_waiters, sent, sender_exc, hb, transport_closed,
              ready, pc, taskFut, nframes, lost, ended>>
histVars == <<awaitLog, calls, matched, dropped>>
openVars == <<oc, ocFut, reader, handlers, connection_info, arrived>>
utilVars == <<bools, packed, consumer, gets, returned, monitor>>
wireVars == <<channels, wire, engine, dispatched,
              bools, packed, consumer, gets, returned, monitor>>
vars == <<futures, connection_exc, futs, closing, close_waiters, sent, sender_exc,
          hb, transport_closed, ready, pc, taskFut, nframes, lost, ended,
          awaitLog, calls, matched, dropped,
          oc, ocFut, reader, handlers, connection_info, arrived, channels,
          wire, engine, dispatched,
          bools, packed, consumer, gets, returned, monitor>>

\* the protocol before any byte arrived
Protocol == [buffer |-> <<>>, exc |-> None]
\* a server that sends no bytes
NoWire == [frames |-> <<>>, stream |-> <<>>, chunks |-> 0]

\* no call of pack_bools made
NoPack == bools = <<>> /\ packed = <<>>
\* no consumer started
NoConsumer == consumer = None /\ gets = <<>> /\ returned = <<>>
\* the heartbeat monitor left out of the picture
NoMonitor == monitor = None
Quiet == NoPack /\ NoConsumer /\ NoMonitor

\* ------------------------------------------------------------- asyncio.Future
Pending == [st |-> "pending", val |-> None]
Resolved(result) == [st |-> "result", val |-> result]
Failed(exc) == [st |-> "exception", val |-> exc]
Cancelled == [st |-> "cancelled", val |-> None]
Done(f) == f.st # "pending"

\* ---------------------------------------------------------------- Synchroniser
\* The Synchroniser as a value: its two fields and the futures it made.
Sync == [futures |-> futures, connection_exc |-> connection_exc, futs |-> futs]

SynchroniserInit ==
    [futures |-> [m \in Methods |-> <<>>], connection_exc |-> None, futs |-> <<>>]

\* for method in expected_methods: self._futures[method].append((fut, expected_methods))
RECURSIVE AppendWaiter(_, _, _, _)
AppendWaiter(fs, expected_methods, i, rec) ==
    IF i > Len(expected_methods) THEN fs
    ELSE AppendWaiter([fs EXCEPT ![expected_methods[i]] = Append(@, rec)],
                      expected_methods, i + 1, rec)

\* Await, were the record registered whatever connection_exc is
Await_RegistersAlways(s, expected_methods) ==
    LET fut == Len(s.futs) + 1
    IN  [s EXCEPT !.futs = Append(@, IF s.connection_exc # None
                                     THEN Failed(s.connection_exc) ELSE Pending),
                  !.futures = AppendWaiter(@, expected_methods, 1,
                                  [fut |-> fut, methods |-> expected_methods])]

\* Synchroniser.await(*expected_methods); the future returned is Len(s.futs) + 1
Await(s, expected_methods) ==
    LET fut == Len(s.futs) + 1
    IN  IF s.connection_exc # None
        THEN [s EXCEPT !.futs = Append(@, Failed(s.connection_exc))]
        ELSE [s EXCEPT !.futs = Append(@, Pending),
                       !.futures = AppendWaiter(@, expected_methods, 1,
                                       [fut |-> fut, methods |-> expected_methods])]

\* notify, lines 91-97: pop the head of every other accepted method's queue.
\* popleft on an empty deque raises IndexError; the assert raises after the pop.
RECURSIVE PopOthers(_, _, _, _, _)
PopOthers(fs, methods, i, method, fut) ==
    IF i > Len(methods) THEN [futures |-> fs, raised |-> None]
    ELSE IF methods[i] = method THEN PopOthers(fs, methods, i + 1, method, fut)
    ELSE IF fs[methods[i]] = <<>> THEN [futures |-> fs, raised |-> "IndexError"]
    ELSE LET poped_fut == Head(fs[methods[i]]).fut
             fs2 == [fs EXCEPT ![methods[i]] = Tail(@)]
         IN  IF poped_fut # fut
             THEN [futures |-> fs2, raised |-> "AssertionError"]
             ELSE PopOthers(fs2, methods, i + 1, method, fut)

\* Synchroniser.notify(method, result): the Synchroniser after the call, the
\* future popped (0: none, the notification is logged and dropped) and the
\* exception the call raised, if any.
NotifySkipsCancelled(s, method, result) ==
    LET q == SelectSeq(s.futures[method], LAMBDA w : s.futs[w.fut].st # "cancelled")
    IN  IF q = <<>>
        THEN [s |-> [s EXCEPT !.futures[method] = <<>>], popped |-> 0, raised |-> None]
        ELSE [s |-> [s EXCEPT !.futures[method] = Tail(q),
                              !.futs[Head(q).fut] =
                                  IF Done(@) THEN @ ELSE Resolved(result)],
              popped |-> Head(q).fut, raised |-> None]

NotifyPopRight(s, method, result) ==
    LET q == s.futures[method]
    IN  IF q = <<>> THEN [s |-> s, popped |-> 0, raised |-> None]
        ELSE [s |-> [s EXCEPT !.futures[method] = SubSeq(q, 1, Len(q) - 1),
                              !.futs[q[Len(q)].fut] =
                                  IF Done(@) THEN @ ELSE Resolved(result)],
              popped |-> q[Len(q)].fut, raised |-> None]

\* notify without the `except IndexError`: popleft on an empty deque raises
Notify_RaisesOnEmpty(s, method, result) ==
    IF s.futures[method] = <<>>
    THEN [s |-> s, popped |-> 0, raised |-> "IndexError"]
    ELSE LET fut == Head(s.futures[method]).fut
             methods == Head(s.futures[method]).methods
             fs1 == [s.futures EXCEPT ![method] = Tail(@)]
         IN  IF Done(s.futs[fut]) /\ s.futs[fut].st # "cancelled"
             THEN [s |-> [s EXCEPT !.futures = fs1],
                   popped |-> fut, raised |-> "AssertionError"]
             ELSE LET futs1 == IF Done(s.futs[fut]) THEN s.futs
                               ELSE [s.futs EXCEPT ![fut] = Resolved(result)]
                      rest == IF Len(methods) > 1
                              THEN PopOthers(fs1, methods, 1, method, fut)
                              ELSE [futures |-> fs1, raised |-> None]
                  IN  [s |-> [s EXCEPT !.futures = rest.futures, !.futs = futs1],
                       popped |-> fut, raised |-> rest.raised]

Notify(s, method, result) ==
    IF s.futures[method] = <<>>
    THEN [s |-> s, popped |-> 0, raised |-> None]
    ELSE LET fut == Head(s.futures[method]).fut
             methods == Head(s.futures[method]).methods
             fs1 == [s.futures EXCEPT ![method] = Tail(@)]
         IN  IF Done(s.futs[fut]) /\ s.futs[fut].st # "cancelled"
             THEN [s |-> [s EXCEPT !.futures = fs1],
                   popped |-> fut, raised |-> "AssertionError"]
             ELSE LET futs1 == IF Done(s.futs[fut]) THEN s.futs
                               ELSE [s.futs EXCEPT ![fut] = Resolved(result)]
                      rest == IF Len(methods) > 1
                              THEN PopOthers(fs1, methods, 1, method, fut)
                              ELSE [futures |-> fs1, raised |-> None]
                  IN  [s |-> [s EXCEPT !.futures = rest.futures, !.futs = futs1],
                       popped |-> fut, raised |-> rest.raised]

\* the futures that have a record in some queue
Queued(s) ==
    {f \in DOMAIN s.futs :
        \E m \in Methods : \E i \in DOMAIN s.futures[m] : s.futures[m][i].fut = f}

\* killall without `if fut.done(): continue`
Killall_FailsDone(s, exc) ==
    [futures |-> [m \in Methods |-> <<>>],
     connection_exc |-> exc,
     futs |-> [f \in DOMAIN s.futs |->
                  IF f \in Queued(s) THEN Failed(exc) ELSE s.futs[f]]]

\* Synchroniser.killall(exc)
Killall(s, exc) ==
    [futures |-> [m \in Methods |-> <<>>],
     connection_exc |-> exc,
     futs |-> [f \in DOMAIN s.futs |->
                  IF f \in Queued(s) /\ ~Done(s.futs[f])
                  THEN Failed(exc) ELSE s.futs[f]]]

\* asyncio.Future.cancel() by the task that awaits it
Cancel(s, fut) ==
    IF Done(s.futs[fut]) THEN s ELSE [s EXCEPT !.futs[fut] = Cancelled]

SetSync(s) ==
    /\ futures' = s.futures
    /\ connection_exc' = s.connection_exc
    /\ futs' = s.futs

\* ----------------------------------------------------------------------- Init
\* Connection.__init__ on a connection whose handshake is done: open_connection
\* has returned it, the heartbeat monitor runs, nothing is scheduled.
Init ==
    /\ futures = SynchroniserInit.futures
    /\ connection_exc = SynchroniserInit.connection_exc
    /\ futs = SynchroniserInit.futs
    /\ closing = FALSE
    /\ close_waiters = 0
    /\ sent = <<>>
    /\ sender_exc = None
    /\ hb = "running"
    /\ transport_closed = 0
    /\ ready = <<>>
    /\ pc = [t \in Tasks |-> "idle"]
    /\ taskFut = [t \in Tasks |-> 0]
    /\ nframes = 0
    /\ lost = None
    /\ ended = FALSE
    /\ awaitLog = <<>>
    /\ calls = 0
    /\ matched = [m \in SyncMethods |-> 0]
    /\ dropped = [m \in SyncMethods |-> FALSE]
    /\ oc = "returned"
    /\ ocFut = 0
    /\ reader = [is_waiting |-> TRUE, pending_frames |-> <<>>]
    /\ handlers = (0 :> "reader.feed")
    /\ connection_info = ConnectionInfo @@ ("frame_max" :> 131072)
    /\ arrived = <<>>
    /\ channels = <<>>
    /\ wire = NoWire
    /\ engine = Protocol
    /\ dispatched = <<>>
    /\ Quiet

\* ------------------------------------------------------------------- SyncSpec
\* One Synchroniser under arbitrary calls. The result handed to the i-th
\* notify call is i, so that every notification carries its own result.
DoAwait(expected_methods) ==
    /\ Len(futs) < MaxAwaits
    /\ SetSync(Await(Sync, expected_methods))
    /\ awaitLog' = Append(awaitLog, expected_methods)
    /\ UNCHANGED <<calls, matched, dropped>>
    /\ UNCHANGED connVars
    /\ UNCHANGED openVars
    /\ UNCHANGED wireVars

DoNotify(method) ==
    LET r == Notify(Sync, method, calls + 1) IN
    /\ calls < MaxNotifies
    /\ SetSync(r.s)
    /\ calls' = calls + 1
    /\ matched' = IF r.popped # 0 THEN [matched EXCEPT ![method] = @ + 1] ELSE matched
    /\ dropped' = IF r.popped = 0 THEN [dropped EXCEPT ![method] = TRUE] ELSE dropped
    /\ UNCHANGED awaitLog
    /\ UNCHANGED connVars
    /\ UNCHANGED openVars
    /\ UNCHANGED wireVars

DoCancel(fut) ==
    /\ ~Done(futs[fut])
    /\ SetSync(Cancel(Sync, fut))
    /\ UNCHANGED histVars
    /\ UNCHANGED wireVars
    /\ UNCHANGED openVars
    /\ UNCHANGED connVars

DoKillall(exc) ==
    /\ SetSync(Killall(Sync, exc))
    /\ UNCHANGED histVars
    /\ UNCHANGED wireVars
    /\ UNCHANGED openVars
    /\ UNCHANGED connVars

SyncNext ==
    \/ \E expected_methods \in Tuples : DoAwait(expected_methods)
    \/ \E method \in SyncMethods : DoNotify(method)
    \/ \E fut \in DOMAIN futs : DoCancel(fut)
    \/ \E exc \in SyncExcs : DoKillall(exc)

SyncSpec == Init /\ [][SyncNext]_vars

\* ------------------------------------------------------------------- ConnSpec
\* The event loop runs one callback at a time, in call_soon order (ready).
Callback(cb, frame, task) == [cb |-> cb, frame |-> frame, task |-> task]

\* A future that completes schedules the wake-up of the task awaiting it.
Wakeups(before, after) ==
    LET woken(t) == /\ pc[t] = "awaiting"
                    /\ ~Done(before.futs[taskFut[t]])
                    /\ Done(after.futs[taskFut[t]])
        opened == /\ oc \in {"awaitStart", "awaitTune", "awaitOpenOK"}
                  /\ ~Done(before.futs[ocFut])
                  /\ Done(after.futs[ocFut])
    IN  SelectSeq([t \in Tasks |-> Callback("wakeup", None, t)],
                  LAMBDA c : woken(c.task))
            \o (IF opened THEN <<Callback("wakeup", None, 0)>> ELSE <<>>)

\* Connection.close, lines 84-86: gather the close waiters, if there are any
CloseTail == IF close_waiters > 0 THEN "gathering" ELSE "returned"

\* Connection.close, lines 77-81: the outcome of `yield from` on a done future
AwaitOutcomeCatchesNothing(f) ==
    IF f.st = "result" THEN CloseTail ELSE "raised"

AwaitOutcome(f) ==
    IF f.st = "result" THEN CloseTail
    ELSE IF f.st = "exception" /\ f.val \in AlreadyClosed THEN CloseTail
    ELSE "raised"

\* Connection.close(), from the call to its first suspension
CloseResends(t) ==
    LET s1 == Await(Sync, <<"ConnectionCloseOK">>)
        fut == Len(futs) + 1
    IN  /\ pc[t] = "idle"
        /\ closing' = TRUE
        /\ sent' = Append(sent, send_Close(0, "Connection closed by application", 0, 0))
        /\ SetSync(s1)
        /\ IF Done(s1.futs[fut])
           THEN pc' = [pc EXCEPT ![t] = AwaitOutcome(s1.futs[fut])]
                /\ UNCHANGED taskFut
           ELSE pc' = [pc EXCEPT ![t] = "awaiting"]
                /\ taskFut' = [taskFut EXCEPT ![t] = fut]
        /\ UNCHANGED <<close_waiters, sender_exc, hb, transport_closed, ready,
                       nframes, lost, ended>>
        /\ UNCHANGED histVars
        /\ UNCHANGED wireVars
        /\ UNCHANGED openVars

CloseDoesNotWait(t) ==
    LET s1 == Await(Sync, <<"ConnectionCloseOK">>)
    IN  /\ pc[t] = "idle"
        /\ IF ~closing
           THEN /\ closing' = TRUE
                /\ sent' = Append(sent, send_Close(0, "Connection closed by application", 0, 0))
                /\ SetSync(s1)
                /\ pc' = [pc EXCEPT ![t] = CloseTail]
                /\ UNCHANGED taskFut
           ELSE /\ pc' = [pc EXCEPT ![t] = CloseTail]
                /\ UNCHANGED <<closing, sent, taskFut>>
                /\ UNCHANGED syncVars
        /\ UNCHANGED <<close_waiters, sender_exc, hb, transport_closed, ready,
                       nframes, lost, ended>>
        /\ UNCHANGED histVars
        /\ UNCHANGED wireVars
        /\ UNCHANGED openVars

Close(t) ==
    LET s1 == Await(Sync, <<"ConnectionCloseOK">>)
        fut == Len(futs) + 1
    IN  /\ pc[t] = "idle"
        /\ IF ~closing
           THEN /\ closing' = TRUE
                /\ sent' = Append(sent, send_Close(0, "Connection closed by application", 0, 0))
                /\ SetSync(s1)
                /\ IF Done(s1.futs[fut])
                   THEN pc' = [pc EXCEPT ![t] = AwaitOutcome(s1.futs[fut])]
                        /\ UNCHANGED taskFut
                   ELSE pc' = [pc EXCEPT ![t] = "awaiting"]
                        /\ taskFut' = [taskFut EXCEPT ![t] = fut]
           ELSE /\ pc' = [pc EXCEPT ![t] = CloseTail]
                /\ UNCHANGED <<closing, sent, taskFut>>
                /\ UNCHANGED syncVars
        /\ UNCHANGED <<close_waiters, sender_exc, hb, transport_closed, ready,
                       nframes, lost, ended>>
        /\ UNCHANGED histVars
        /\ UNCHANGED wireVars
        /\ UNCHANGED openVars

\* Connection.close() resumed by the completion of the future it awaits
CloseResume(t) ==
    /\ ready # <<>>
    /\ Head(ready) = Callback("wakeup", None, t)
    /\ pc[t] = "awaiting"
    /\ pc' = [pc EXCEPT ![t] = AwaitOutcome(futs[taskFut[t]])]
    /\ ready' = Tail(ready)
    /\ UNCHANGED <<closing, close_waiters, sent, sender_exc, hb, transport_closed,
                   taskFut, nframes, lost, ended>>
    /\ UNCHANGED syncVars
    /\ UNCHANGED histVars
    /\ UNCHANGED wireVars
    /\ UNCHANGED openVars

\* asyncio.gather over the close waiters: each is heartbeat_monitor.wait_closed(),
\* which completes once the monitor has stopped
CloseGathered(t) ==
    /\ pc[t] = "gathering"
    /\ hb = "stopped"
    /\ pc' = [pc EXCEPT ![t] = "returned"]
    /\ UNCHANGED <<closing, close_waiters, sent, sender_exc, hb, transport_closed,
                   ready, taskFut, nframes, lost, ended>>
    /\ UNCHANGED syncVars
    /\ UNCHANGED histVars
    /\ UNCHANGED wireVars
    /\ UNCHANGED openVars

\* heartbeat_monitor.stop() cancels the timers; they end in a later loop step
HeartbeatStop(h) == IF h = "running" THEN "stopping" ELSE h

HeartbeatStopped ==
    /\ hb = "stopping"
    /\ hb' = "stopped"
    /\ UNCHANGED <<closing, close_waiters, sent, sender_exc, transport_closed,
                   ready, pc, taskFut, nframes, lost, ended>>
    /\ UNCHANGED syncVars
    /\ UNCHANGED histVars
    /\ UNCHANGED wireVars
    /\ UNCHANGED openVars

\* A method frame of the server arrives on channel 0: Dispatcher.dispatch hands
\* it to the reader, which schedules ConnectionActor.handle for it.
ServerSends(frame) ==
    /\ nframes < MaxFrames
    /\ lost = None
    /\ transport_closed = 0
    /\ nframes' = nframes + 1
    /\ ready' = Append(ready, Callback("handle", frame, 0))
    /\ ended' = (ended \/ frame.payload.name = "ConnectionClose")
    /\ UNCHANGED <<closing, close_waiters, sent, sender_exc, hb, transport_closed,
                   pc, taskFut, lost>>
    /\ UNCHANGED syncVars
    /\ UNCHANGED histVars
    /\ UNCHANGED wireVars
    /\ UNCHANGED openVars

\* what the handler registered for channel_id does with a frame: the reader of
\* channel 0 schedules ConnectionActor.handle, the reader of a channel its own
\* actor's handle
HandlerCall(channel_id, frame) ==
    IF channel_id = 0 THEN Callback("handle", frame, 0)
    ELSE Callback("channel.handle", frame, channel_id)

\* Dispatcher.dispatch_all(frame): every handler is called with the frame, in
\* the order of the channel ids. The handler of channel 0 schedules
\* ConnectionActor.handle, the handler of a channel its actor's handle.
dispatch_all(hs, frame) ==
    LET ids == SelectSeq([i \in 1..(MaxChannelId + 1) |-> i - 1],
                         LAMBDA c : c \in DOMAIN hs)
    IN  [i \in DOMAIN ids |-> HandlerCall(ids[i], frame)]

\* The transport is lost: the protocol dispatches a PoisonPillFrame to every
\* handler (Dispatcher.dispatch_all).
TransportLost(exc) ==
    /\ lost = None
    /\ transport_closed = 0
    /\ lost' = exc
    /\ ended' = TRUE
    /\ ready' = ready \o dispatch_all(handlers,
                                      PoisonPillFrame(ConnectionLostError(exc)))
    /\ UNCHANGED <<closing, close_waiters, sent, sender_exc, hb, transport_closed,
                   pc, taskFut, nframes>>
    /\ UNCHANGED syncVars
    /\ UNCHANGED histVars
    /\ UNCHANGED wireVars
    /\ UNCHANGED openVars

\* Actor.handle: the handler is named after the frame's type or, when the actor
\* has none of that name, after the type of its payload
HandlerName(frame) ==
    IF frame.type = "PoisonPillFrame" THEN frame.type ELSE frame.payload.name

Handling(name) ==
    /\ ready # <<>>
    /\ Head(ready).cb = "handle"
    /\ HandlerName(Head(ready).frame) = name

\* ConnectionActor._close_all(exc), applied to the Synchroniser s; the callbacks
\* in `then` are scheduled by the handler after it
close_all_NoKill(s, exc, then) ==
    /\ hb' = HeartbeatStop(hb)
    /\ close_waiters' = close_waiters + 1
    /\ SetSync(s)
    /\ sender_exc' = exc
    /\ ready' = Tail(ready) \o Wakeups(Sync, s) \o then

close_all(s, exc, then) ==
    /\ hb' = HeartbeatStop(hb)
    /\ close_waiters' = close_waiters + 1
    /\ SetSync(Killall(s, exc))
    /\ sender_exc' = exc
    /\ ready' = Tail(ready) \o Wakeups(Sync, Killall(s, exc)) \o then

\* handle_ConnectionStart notifying the waiter of ConnectionCloseOK
handle_ConnectionStart_NotifiesCloseOK ==
    /\ Handling("ConnectionStart")
    /\ SetSync(Notify(Sync, "ConnectionCloseOK", None).s)
    /\ ready' = Tail(ready) \o Wakeups(Sync, Notify(Sync, "ConnectionCloseOK", None).s)
    /\ UNCHANGED <<closing, close_waiters, sent, sender_exc, hb, transport_closed,
                   pc, taskFut, nframes, lost, ended>>
    /\ UNCHANGED histVars
    /\ UNCHANGED wireVars
    /\ UNCHANGED openVars

\* ConnectionActor.handle_ConnectionStart on an open connection
handle_ConnectionStart ==
    /\ Handling("ConnectionStart")
    /\ SetSync(Notify(Sync, "ConnectionStart", None).s)
    /\ ready' = Tail(ready) \o Wakeups(Sync, Notify(Sync, "ConnectionStart", None).s)
    /\ UNCHANGED <<closing, close_waiters, sent, sender_exc, hb, transport_closed,
                   pc, taskFut, nframes, lost, ended>>
    /\ UNCHANGED histVars
    /\ UNCHANGED wireVars
    /\ UNCHANGED openVars

\* ConnectionActor.handle_ConnectionTune: the waiter is resolved with the frame
handle_ConnectionTune ==
    /\ Handling("ConnectionTune")
    /\ SetSync(Notify(Sync, "ConnectionTune", Head(ready).frame).s)
    /\ ready' = Tail(ready)
                  \o Wakeups(Sync, Notify(Sync, "ConnectionTune", Head(ready).frame).s)
    /\ UNCHANGED <<closing, close_waiters, sent, sender_exc, hb, transport_closed,
                   pc, taskFut, nframes, lost, ended>>
    /\ UNCHANGED histVars
    /\ UNCHANGED wireVars
    /\ UNCHANGED openVars

\* ConnectionActor.handle_ConnectionOpenOK
handle_ConnectionOpenOK ==
    /\ Handling("ConnectionOpenOK")
    /\ SetSync(Notify(Sync, "ConnectionOpenOK", None).s)
    /\ ready' = Tail(ready) \o Wakeups(Sync, Notify(Sync, "ConnectionOpenOK", None).s)
    /\ UNCHANGED <<closing, close_waiters, sent, sender_exc, hb, transport_closed,
                   pc, taskFut, nframes, lost, ended>>
    /\ UNCHANGED histVars
    /\ UNCHANGED wireVars
    /\ UNCHANGED openVars

\* handle_PoisonPillFrame without `self.connection._closing = True`
handle_PoisonPillFrame_NotClosing ==
    /\ Handling("PoisonPillFrame")
    /\ closing' = closing
    /\ close_all(Sync, Head(ready).frame.exception, <<>>)
    /\ UNCHANGED <<sent, transport_closed, pc, taskFut, nframes, lost, ended>>
    /\ UNCHANGED histVars
    /\ UNCHANGED wireVars
    /\ UNCHANGED openVars

\* ConnectionActor.handle_PoisonPillFrame
handle_PoisonPillFrame ==
    /\ Handling("PoisonPillFrame")
    /\ closing' = TRUE
    /\ close_all(Sync, Head(ready).frame.exception, <<>>)
    /\ UNCHANGED <<sent, transport_closed, pc, taskFut, nframes, lost, ended>>
    /\ UNCHANGED histVars
    /\ UNCHANGED wireVars
    /\ UNCHANGED openVars

\* ConnectionActor.handle_ConnectionClose
handle_ConnectionClose_ClosesAtOnce ==
    /\ Handling("ConnectionClose")
    /\ sent' = Append(sent, send_CloseOK)
    /\ closing' = TRUE
    /\ close_all(Sync, "ServerConnectionClosed", <<>>)
    /\ transport_closed' = transport_closed + 1
    /\ UNCHANGED <<pc, taskFut, nframes, lost, ended>>
    /\ UNCHANGED histVars
    /\ UNCHANGED wireVars
    /\ UNCHANGED openVars

handle_ConnectionClose ==
    /\ Handling("ConnectionClose")
    /\ sent' = Append(sent, send_CloseOK)
    /\ closing' = TRUE
    /\ close_all(Sync, "ServerConnectionClosed",
                 <<Callback("transport.close", None, 0)>>)
    /\ UNCHANGED <<transport_closed, pc, taskFut, nframes, lost, ended>>
    /\ UNCHANGED histVars
    /\ UNCHANGED wireVars
    /\ UNCHANGED openVars

\* ConnectionActor.handle_ConnectionCloseOK
handle_ConnectionCloseOK_NoNotify ==
    /\ Handling("ConnectionCloseOK")
    /\ close_all(Sync, "ClientConnectionClosed", <<>>)
    /\ transport_closed' = transport_closed + 1
    /\ UNCHANGED <<closing, sent, pc, taskFut, nframes, lost, ended>>
    /\ UNCHANGED histVars
    /\ UNCHANGED wireVars
    /\ UNCHANGED openVars

handle_ConnectionCloseOK ==
    /\ Handling("ConnectionCloseOK")
    /\ close_all(Notify(Sync, "ConnectionCloseOK", None).s,
                 "ClientConnectionClosed", <<>>)
    /\ transport_closed' = transport_closed + 1
    /\ UNCHANGED <<closing, sent, pc, taskFut, nframes, lost, ended>>
    /\ UNCHANGED histVars
    /\ UNCHANGED wireVars
    /\ UNCHANGED openVars

\* loop.call_soon(self.protocol.transport.close), run by the loop
TransportClose ==
    /\ ready # <<>>
    /\ Head(ready) = Callback("transport.close", None, 0)
    /\ transport_closed' = transport_closed + 1
    /\ ready' = Tail(ready)
    /\ UNCHANGED <<closing, close_waiters, sent, sender_exc, hb, pc, taskFut,
                   nframes, lost, ended>>
    /\ UNCHANGED syncVars
    /\ UNCHANGED histVars
    /\ UNCHANGED wireVars
    /\ UNCHANGED openVars

\* one iteration of the event loop: the callback at the head of ready
RunCallback ==
    \/ handle_ConnectionStart
    \/ handle_PoisonPillFrame
    \/ handle_ConnectionClose
    \/ handle_ConnectionCloseOK
    \/ TransportClose
    \/ \E t \in Tasks : CloseResume(t)

ConnNext ==
    \/ \E t \in Tasks : Close(t)
    \/ \E t \in Tasks : CloseGathered(t)
    \/ HeartbeatStopped
    \/ \E frame \in ServerFrames : ServerSends(frame)
    \/ \E exc \in Causes : TransportLost(exc)
    \/ RunCallback

ConnSpec == Init /\ [][ConnNext]_vars

\* The loop runs every scheduled callback, a cancelled heartbeat timer ends
\* and a gather whose waiters are complete resumes its task.
ConnFairSpec ==
    /\ ConnSpec
    /\ WF_vars(RunCallback)
    /\ WF_vars(HeartbeatStopped)
    /\ \A t \in Tasks : WF_vars(CloseGathered(t))

\* -------------------------------------------------------------- HandshakeSpec
\* open_connection against a server that sends the handshake methods in any
\* order, any number of times (up to MaxHandshakeFrames).
Tunes == {ConnectionTune(0, 131072, 600), ConnectionTune(2047, 4096, 60)}
HandshakeFrames ==
    {MethodFrame(0, ConnectionStart), MethodFrame(0, ConnectionOpenOK)}
        \cup {MethodFrame(0, tune) : tune \in Tunes}

\* protocol.send_protocol_header(): the eight octets AMQP 0 0 9 1, written to
\* the transport before any frame; recorded in sent in the shape of a method
send_protocol_header == [channel_id |-> 0, method |-> [name |-> "AMQP/0/0/9/1"]]
send_StartOK(client_properties, mechanism, response, locale) ==
    send_method(0, ConnectionStartOK(client_properties, mechanism, response, locale))
send_TuneOK(channel_max, frame_max, heartbeat) ==
    send_method(0, ConnectionTuneOK(channel_max, frame_max, heartbeat))
send_Open(virtual_host) == send_method(0, ConnectionOpen(virtual_host, "", FALSE))

\* Dispatcher.add_handler, Dispatcher.remove_handler (del raises KeyError for a
\* channel id that has no handler)
add_handler(hs, channel_id, handler) ==
    [c \in DOMAIN hs \cup {channel_id} |-> IF c = channel_id THEN handler ELSE hs[c]]
remove_handler(hs, channel_id) == [c \in DOMAIN hs \ {channel_id} |-> hs[c]]

\* QueuedReader.ready(): hand the next frame to the actor, a pending one now or
\* the next one fed; QueuedReader.feed(frame)
ReaderReady(r) ==
    IF r.is_waiting
    THEN [reader |-> r, scheduled |-> <<>>, raised |-> "AssertionError"]
    ELSE IF r.pending_frames # <<>>
    THEN [reader |-> [r EXCEPT !.pending_frames = Tail(@)],
          scheduled |-> <<Callback("handle", Head(r.pending_frames), 0)>>,
          raised |-> None]
    ELSE [reader |-> [r EXCEPT !.is_waiting = TRUE], scheduled |-> <<>>,
          raised |-> None]

ReaderFeed(r, frame) ==
    IF r.is_waiting
    THEN [reader |-> [r EXCEPT !.is_waiting = FALSE],
          scheduled |-> <<Callback("handle", frame, 0)>>]
    ELSE [reader |-> [r EXCEPT !.pending_frames = Append(@, frame)],
          scheduled |-> <<>>]

HandshakeInit ==
    /\ futures = SynchroniserInit.futures
    /\ connection_exc = SynchroniserInit.connection_exc
    /\ futs = SynchroniserInit.futs
    /\ closing = FALSE
    /\ close_waiters = 0
    /\ sent = <<>>
    /\ sender_exc = None
    /\ hb = "off"
    /\ transport_closed = 0
    /\ ready = <<>>
    /\ pc = [t \in Tasks |-> "idle"]
    /\ taskFut = [t \in Tasks |-> 0]
    /\ nframes = 0
    /\ lost = None
    /\ ended = FALSE
    /\ awaitLog = <<>>
    /\ calls = 0
    /\ matched = [m \in SyncMethods |-> 0]
    /\ dropped = [m \in SyncMethods |-> FALSE]
    /\ oc = "start"
    /\ ocFut = 0
    /\ reader = [is_waiting |-> FALSE, pending_frames |-> <<>>]
    /\ handlers = <<>>
    /\ connection_info = ConnectionInfo
    /\ arrived = <<>>
    /\ channels = <<>>
    /\ wire = NoWire
    /\ engine = Protocol
    /\ dispatched = <<>>
    /\ Quiet

\* open_connection without its reader.ready() calls
OpenStretch_NeverReady(hs, rest, sends, method, next) ==
    LET s1 == Await(Sync, <<method>>)
        fut == Len(futs) + 1
    IN  /\ sent' = sent \o sends
        /\ reader' = reader
        /\ ready' = rest
        /\ SetSync(s1)
        /\ IF Done(s1.futs[fut])
           THEN /\ oc' = "raised"
                /\ handlers' = remove_handler(hs, 0)
                /\ UNCHANGED ocFut
           ELSE /\ oc' = next
                /\ handlers' = hs
                /\ ocFut' = fut

\* open_connection, one stretch between two suspensions: it sends `sends`,
\* calls reader.ready() and awaits `method`; whatever raises inside the try
\* removes the handler of channel 0 and is raised to the caller. hs is the
\* dispatcher's table and rest the loop's queue when the stretch starts.
OpenStretch(hs, rest, sends, method, next) ==
    LET rd == ReaderReady(reader)
        s1 == Await(Sync, <<method>>)
        fut == Len(futs) + 1
    IN  /\ sent' = sent \o sends
        /\ reader' = rd.reader
        /\ ready' = rest \o rd.scheduled
        /\ IF rd.raised # None
           THEN /\ oc' = "raised"
                /\ handlers' = remove_handler(hs, 0)
                /\ UNCHANGED ocFut
                /\ UNCHANGED syncVars
           ELSE /\ SetSync(s1)
                /\ IF Done(s1.futs[fut])
                   THEN /\ oc' = "raised"
                        /\ handlers' = remove_handler(hs, 0)
                        /\ UNCHANGED ocFut
                   ELSE /\ oc' = next
                        /\ handlers' = hs
                        /\ ocFut' = fut

\* OpenRaised without dispatcher.remove_handler(0)
OpenRaised_KeepsHandler ==
    /\ oc' = "raised"
    /\ handlers' = handlers
    /\ ready' = Tail(ready)
    /\ UNCHANGED <<sent, reader, ocFut>>
    /\ UNCHANGED syncVars

\* the await of open_connection raised: except: dispatcher.remove_handler(0); raise
OpenRaised ==
    /\ oc' = "raised"
    /\ handlers' = remove_handler(handlers, 0)
    /\ ready' = Tail(ready)
    /\ UNCHANGED <<sent, reader, ocFut>>
    /\ UNCHANGED syncVars

OpenResumed(at) ==
    /\ ready # <<>>
    /\ Head(ready) = Callback("wakeup", None, 0)
    /\ oc = at

\* open_connection, lines 91-103
OpenConnection ==
    /\ oc = "start"
    /\ OpenStretch(add_handler(handlers, 0, "reader.feed"), ready,
                   <<send_protocol_header>>, "ConnectionStart", "awaitStart")
    /\ UNCHANGED <<closing, close_waiters, sender_exc, hb, transport_closed, pc,
                   taskFut, nframes, lost, ended, connection_info, arrived>>
    /\ UNCHANGED histVars
    /\ UNCHANGED wireVars

\* open_connection, lines 103-114
OpenConnectionStarted ==
    /\ OpenResumed("awaitStart")
    /\ IF futs[ocFut].st = "result"
       THEN OpenStretch(handlers, Tail(ready),
                <<send_StartOK([product |-> "asynqp", version |-> "0.1",
                                platform |-> "sys.version"],
                               "AMQPLAIN",
                               [LOGIN |-> connection_info["username"],
                                PASSWORD |-> connection_info["password"]],
                               "en_US")>>,
                "ConnectionTune", "awaitTune")
       ELSE OpenRaised
    /\ UNCHANGED <<closing, close_waiters, sender_exc, hb, transport_closed, pc,
                   taskFut, nframes, lost, ended, connection_info, arrived>>
    /\ UNCHANGED histVars
    /\ UNCHANGED wireVars

\* open_connection, lines 114-124
OpenConnectionTunedDefaults ==
    /\ OpenResumed("awaitTune")
    /\ IF futs[ocFut].st = "result"
       THEN LET frame == futs[ocFut].val
            IN  /\ connection_info' =
                       connection_info @@ ("frame_max" :> frame.payload.frame_max)
                /\ hb' = "running"
                /\ OpenStretch(handlers, Tail(ready),
                       <<send_TuneOK(0, 131072, 600),
                         send_Open(connection_info["virtual_host"])>>,
                       "ConnectionOpenOK", "awaitOpenOK")
       ELSE OpenRaised /\ UNCHANGED <<connection_info, hb>>
    /\ UNCHANGED <<closing, close_waiters, sender_exc, transport_closed, pc,
                   taskFut, nframes, lost, ended, arrived>>
    /\ UNCHANGED histVars
    /\ UNCHANGED wireVars

OpenConnectionTuned ==
    /\ OpenResumed("awaitTune")
    /\ IF futs[ocFut].st = "result"
       THEN LET frame == futs[ocFut].val
            IN  /\ connection_info' =
                       connection_info @@ ("frame_max" :> frame.payload.frame_max)
                /\ hb' = "running"
                /\ OpenStretch(handlers, Tail(ready),
                       <<send_TuneOK(frame.payload.channel_max,
                                     frame.payload.frame_max,
                                     frame.payload.heartbeat),
                         send_Open(connection_info["virtual_host"])>>,
                       "ConnectionOpenOK", "awaitOpenOK")
       ELSE OpenRaised /\ UNCHANGED <<connection_info, hb>>
    /\ UNCHANGED <<closing, close_waiters, sender_exc, transport_closed, pc,
                   taskFut, nframes, lost, ended, arrived>>
    /\ UNCHANGED histVars
    /\ UNCHANGED wireVars

\* open_connection, lines 124-129
OpenConnectionOpened ==
    /\ OpenResumed("awaitOpenOK")
    /\ IF futs[ocFut].st = "result"
       THEN LET rd == ReaderReady(reader)
            IN  /\ reader' = rd.reader
                /\ ready' = Tail(ready) \o rd.scheduled
                /\ oc' = IF rd.raised # None THEN "raised" ELSE "returned"
                /\ handlers' = IF rd.raised # None
                               THEN remove_handler(handlers, 0) ELSE handlers
                /\ UNCHANGED <<sent, ocFut>>
                /\ UNCHANGED syncVars
       ELSE OpenRaised
    /\ UNCHANGED <<closing, close_waiters, sender_exc, hb, transport_closed, pc,
                   taskFut, nframes, lost, ended, connection_info, arrived>>
    /\ UNCHANGED histVars
    /\ UNCHANGED wireVars

\* The server sends a handshake method on channel 0: Dispatcher.dispatch hands
\* the frame to the handler of channel 0, reader.feed.
HandshakeFrame(frame) ==
    /\ Len(arrived) < MaxHandshakeFrames
    /\ 0 \in DOMAIN handlers
    /\ arrived' = Append(arrived, frame)
    /\ reader' = ReaderFeed(reader, frame).reader
    /\ ready' = ready \o ReaderFeed(reader, frame).scheduled
    /\ UNCHANGED <<closing, close_waiters, sent, sender_exc, hb, transport_closed,
                   pc, taskFut, nframes, lost, ended>>
    /\ UNCHANGED <<oc, ocFut, handlers, connection_info>>
    /\ UNCHANGED syncVars
    /\ UNCHANGED histVars
    /\ UNCHANGED wireVars

HandshakeNext ==
    \/ OpenConnection
    \/ OpenConnectionStarted
    \/ OpenConnectionTuned
    \/ OpenConnectionOpened
    \/ \E frame \in HandshakeFrames : HandshakeFrame(frame)
    \/ handle_ConnectionStart
    \/ handle_ConnectionTune
    \/ handle_ConnectionOpenOK

HandshakeSpec == HandshakeInit /\ [][HandshakeNext]_vars

\* The loop runs the task of open_connection and every scheduled callback; the
\* server is not obliged to send anything.
HandshakeFairSpec ==
    /\ HandshakeSpec
    /\ WF_vars(OpenConnection)
    /\ WF_vars(OpenConnectionStarted)
    /\ WF_vars(OpenConnectionTuned)
    /\ WF_vars(OpenConnectionOpened)
    /\ WF_vars(handle_ConnectionStart)
    /\ WF_vars(handle_ConnectionTune)
    /\ WF_vars(handle_ConnectionOpenOK)

\* ---------------------------------------------------------- HandshakeFailSpec
\* open_connection against a server that may also close the connection, and
\* over a transport that may be lost, at any moment of the handshake.
\* A frame of the server arrives while the transport is up.
HandshakeArrival(frame) ==
    /\ lost = None
    /\ transport_closed = 0
    /\ HandshakeFrame(frame)

\* The transport is lost during the handshake: the poison pill is dispatched
\* to every handler (Dispatcher.dispatch_all), that is to reader.feed.
HandshakeLost(exc) ==
    LET fed == ReaderFeed(reader, PoisonPillFrame(ConnectionLostError(exc)))
    IN  /\ lost = None
        /\ transport_closed = 0
        /\ 0 \in DOMAIN handlers
        /\ lost' = exc
        /\ ended' = TRUE
        /\ reader' = fed.reader
        /\ ready' = ready \o fed.scheduled
        /\ UNCHANGED <<closing, close_waiters, sent, sender_exc, hb,
                       transport_closed, pc, taskFut, nframes>>
        /\ UNCHANGED <<oc, ocFut, handlers, connection_info, arrived>>
        /\ UNCHANGED syncVars
        /\ UNCHANGED histVars
        /\ UNCHANGED wireVars

HandshakeFailNext ==
    \/ OpenConnection
    \/ OpenConnectionStarted
    \/ OpenConnectionTuned
    \/ OpenConnectionOpened
    \/ \E frame \in HandshakeFrames \cup {MethodFrame(0, ServerClose)} :
          HandshakeArrival(frame)
    \/ \E exc \in Causes : HandshakeLost(exc)
    \/ handle_ConnectionStart
    \/ handle_ConnectionTune
    \/ handle_ConnectionOpenOK
    \/ handle_ConnectionClose
    \/ handle_PoisonPillFrame
    \/ TransportClose

HandshakeFailSpec == HandshakeInit /\ [][HandshakeFailNext]_vars

\* The loop runs the task of open_connection and every scheduled callback.
HandshakeFailFairSpec ==
    /\ HandshakeFailSpec
    /\ WF_vars(OpenConnection)
    /\ WF_vars(OpenConnectionStarted)
    /\ WF_vars(OpenConnectionTuned)
    /\ WF_vars(OpenConnectionOpened)
    /\ WF_vars(handle_ConnectionStart)
    /\ WF_vars(handle_ConnectionTune)
    /\ WF_vars(handle_ConnectionOpenOK)
    /\ WF_vars(handle_ConnectionClose)
    /\ WF_vars(handle_PoisonPillFrame)
    /\ WF_vars(TransportClose)

\* ------------------------------------------------------------------- WireSpec
\* The protocol receives the server's bytes in chunks, cuts them into frames
\* and hands each frame to the Dispatcher.
FRAME_END == 206
FRAME_METHOD == 1
FRAME_HEARTBEAT == 8

\* struct.pack('!H', n), struct.pack('!L', n) and their inverses
Pack2(n) == <<(n \div 256) % 256, n % 256>>
Pack4(n) == <<(n \div 16777216) % 256, (n \div 65536) % 256, (n \div 256) % 256, n % 256>>
Unpack2(b) == b[1] * 256 + b[2]
Unpack4(b) == b[1] * 16777216 + b[2] * 65536 + b[3] * 256 + b[4]

\* type (1 octet) | channel (2 octets) | length (4 octets) | payload | frame-end
Serialise(frame_type, channel_id, payload, frame_end) ==
    <<frame_type>> \o Pack2(channel_id) \o Pack4(Len(payload)) \o payload \o <<frame_end>>

\* the raw payloads of ConnectionOpenOK('') and BasicGetEmpty('')
RawConnectionOpenOK == <<0, 10, 0, 41, 0>>
RawBasicGetEmpty == <<0, 60, 0, 72, 0>>

\* what the server sends: ConnectionOpenOK on channel 0, a heartbeat, BasicGetEmpty
\* on channel 1 and on channel 2, each ended by the frame-end octet or by 0xCD
WireFrames ==
    {[frame_type |-> FRAME_METHOD, channel_id |-> 0, payload |-> RawConnectionOpenOK],
     [frame_type |-> FRAME_HEARTBEAT, channel_id |-> 0, payload |-> <<>>],
     [frame_type |-> FRAME_METHOD, channel_id |-> 1, payload |-> RawBasicGetEmpty],
     [frame_type |-> FRAME_METHOD, channel_id |-> 2, payload |-> RawBasicGetEmpty]}
FrameEnds == {FRAME_END, FRAME_END - 1}
Items == [frame : WireFrames, frame_end : FrameEnds]
Streams == UNION {[1..n -> Items] : n \in 0..MaxWireFrames}

RECURSIVE Bytes(_)
Bytes(items) ==
    IF items = <<>> THEN <<>>
    ELSE Serialise(Head(items).frame.frame_type, Head(items).frame.channel_id,
                   Head(items).frame.payload, Head(items).frame_end)
            \o Bytes(Tail(items))

\* the handlers of an open connection with channel 1 open, and of a connection
\* whose handshake failed (open_connection removed the handler of channel 0)
HandlerSets ==
    {[c \in {0, 1} |-> IF c = 0 THEN "reader.feed" ELSE "channel.reader.feed"],
     <<>>}

HeartbeatFrame == [type |-> "HeartbeatFrame", channel_id |-> 0]

\* frames.read(frame_type, channel_id, raw_payload): the method is told by the
\* class id and the method id the payload starts with
read_method(raw_payload) ==
    IF Unpack2(SubSeq(raw_payload, 1, 2)) = 10 /\ Unpack2(SubSeq(raw_payload, 3, 4)) = 41
    THEN ConnectionOpenOK
    ELSE [name |-> "BasicGetEmpty"]

read(frame_type, channel_id, raw_payload) ==
    IF frame_type = FRAME_HEARTBEAT THEN HeartbeatFrame
    ELSE MethodFrame(channel_id, read_method(raw_payload))

\* Dispatcher.dispatch looking the handler up before it tells a heartbeat
dispatch_LooksUpFirst(hs, frame) ==
    IF frame.channel_id \notin DOMAIN hs
    THEN [called |-> <<>>, raised |-> "KeyError"]
    ELSE IF frame.type = "HeartbeatFrame"
    THEN [called |-> <<>>, raised |-> None]
    ELSE [called |-> <<HandlerCall(frame.channel_id, frame)>>, raised |-> None]

\* Dispatcher.dispatch with handlers.get(): a frame without handler is dropped
dispatch_DropsUnknown(hs, frame) ==
    IF frame.type = "HeartbeatFrame" \/ frame.channel_id \notin DOMAIN hs
    THEN [called |-> <<>>, raised |-> None]
    ELSE [called |-> <<HandlerCall(frame.channel_id, frame)>>, raised |-> None]

\* Dispatcher.dispatch(frame): the handler calls made, the exception raised
dispatch(hs, frame) ==
    IF frame.type = "HeartbeatFrame"
    THEN [called |-> <<>>, raised |-> None]
    ELSE IF frame.channel_id \notin DOMAIN hs
    THEN [called |-> <<>>, raised |-> "KeyError"]
    ELSE [called |-> <<HandlerCall(frame.channel_id, frame)>>, raised |-> None]

\* read_frame accepting any octet as the frame-end
BadFrameEnd_Never(octet) == FALSE

\* the frame-end test of read_frame
BadFrameEnd(octet) == octet # FRAME_END

\* read_frame not waiting for the frame-end octet
Complete_WithoutFrameEnd(data, size) == Len(data) >= size + 7

\* a frame is complete when the header and size + 1 more octets are there
Complete(data, size) == Len(data) >= size + 8

\* data_received's loop over read_frame: the frames cut from data and handed to
\* dispatch, the handler calls, the partial frame retained, the exception that
\* ended the loop
RECURSIVE read_frames(_, _)
read_frames(hs, data) ==
    IF Len(data) < 7
    THEN [buffer |-> data, frames |-> <<>>, called |-> <<>>, exc |-> None]
    ELSE LET size == Unpack4(SubSeq(data, 4, 7))
         IN  IF ~Complete(data, size)
             THEN [buffer |-> data, frames |-> <<>>, called |-> <<>>, exc |-> None]
             ELSE IF Len(data) >= size + 8 /\ BadFrameEnd(data[size + 8])
             THEN [buffer |-> <<>>, frames |-> <<>>, called |-> <<>>, exc |-> "AMQPError"]
             ELSE LET frame == read(data[1], Unpack2(SubSeq(data, 2, 3)),
                                    SubSeq(data, 8, 7 + size))
                      d == dispatch(hs, frame)
                      rest == read_frames(hs, SubSeq(data, size + 9, Len(data)))
                  IN  IF d.raised # None
                      THEN [buffer |-> <<>>, frames |-> <<frame>>, called |-> <<>>,
                            exc |-> d.raised]
                      ELSE [buffer |-> rest.buffer, frames |-> <<frame>> \o rest.frames,
                            called |-> d.called \o rest.called, exc |-> rest.exc]

\* AMQP.data_received(data) for the next n octets of the stream. An exception
\* ends the connection: the protocol closes the transport.
data_received(n) ==
    /\ engine.exc = None
    /\ transport_closed = 0
    /\ wire.chunks < MaxChunks
    /\ n <= Len(wire.stream)
    /\ wire' = [wire EXCEPT !.stream = SubSeq(@, n + 1, Len(@)), !.chunks = @ + 1]
    /\ LET r == read_frames(handlers, engine.buffer \o SubSeq(wire.stream, 1, n))
       IN  /\ engine' = [buffer |-> r.buffer, exc |-> r.exc]
           /\ dispatched' = dispatched \o r.frames
           /\ ready' = ready \o r.called
           /\ transport_closed' = IF r.exc # None THEN transport_closed + 1
                                   ELSE transport_closed
    /\ UNCHANGED <<closing, close_waiters, sent, sender_exc, hb, pc, taskFut, nframes,
                   lost, ended, channels>>
    /\ UNCHANGED utilVars
    /\ UNCHANGED syncVars
    /\ UNCHANGED histVars
    /\ UNCHANGED openVars

WireInit ==
    /\ futures = SynchroniserInit.futures
    /\ connection_exc = SynchroniserInit.connection_exc
    /\ futs = SynchroniserInit.futs
    /\ closing = FALSE
    /\ close_waiters = 0
    /\ sent = <<>>
    /\ sender_exc = None
    /\ hb = "running"
    /\ transport_closed = 0
    /\ ready = <<>>
    /\ pc = [t \in Tasks |-> "idle"]
    /\ taskFut = [t \in Tasks |-> 0]
    /\ nframes = 0
    /\ lost = None
    /\ ended = FALSE
    /\ awaitLog = <<>>
    /\ calls = 0
    /\ matched = [m \in SyncMethods |-> 0]
    /\ dropped = [m \in SyncMethods |-> FALSE]
    /\ oc = "returned"
    /\ ocFut = 0
    /\ reader = [is_waiting |-> TRUE, pending_frames |-> <<>>]
    /\ handlers \in HandlerSets
    /\ connection_info = ConnectionInfo @@ ("frame_max" :> 131072)
    /\ arrived = <<>>
    /\ channels = <<>>
    /\ wire \in {[frames |-> items, stream |-> Bytes(items), chunks |-> 0] :
                  items \in Streams}
    /\ engine = Protocol
    /\ dispatched = <<>>
    /\ Quiet

WireNext == \E n \in 0..Len(wire.stream) : data_received(n)

WireSpec == WireInit /\ [][WireNext]_vars

\* ------------------------------------------------------------------- PackSpec
\* serialisation.pack_bools(*bs) applied to every sequence of up to MaxBools
\* booleans.
\* x << n
ShiftLeft(x, n) == x * 2^n

\* the total of the loop `tot += (1 if b else 0) << n` over the booleans
\* from..to of bs, n counted from the first of them
RECURSIVE pack_octet(_, _, _)
pack_octet(bs, from, to) ==
    IF to < from THEN 0
    ELSE pack_octet(bs, from, to - 1)
            + ShiftLeft(IF bs[to] THEN 1 ELSE 0, to - from)

\* pack_bools putting the first boolean in the highest bit
RECURSIVE pack_octet_msb(_, _, _)
pack_octet_msb(bs, from, to) ==
    IF to < from THEN 0
    ELSE pack_octet_msb(bs, from, to - 1)
            + ShiftLeft(IF bs[to] THEN 1 ELSE 0, 7 - (to - from))

pack_bools_MSBFirst(bs) ==
    [j \in 1..((Len(bs) + 7) \div 8) |->
        pack_octet_msb(bs, 8 * (j - 1) + 1, IF 8 * j < Len(bs) THEN 8 * j ELSE Len(bs))]

\* pack_bools: one octet for every eight booleans
pack_bools(bs) ==
    [j \in 1..((Len(bs) + 7) \div 8) |->
        pack_octet(bs, 8 * (j - 1) + 1, IF 8 * j < Len(bs) THEN 8 * j ELSE Len(bs))]

PackInit ==
    /\ futures = SynchroniserInit.futures
    /\ connection_exc = SynchroniserInit.connection_exc
    /\ futs = SynchroniserInit.futs
    /\ closing = FALSE
    /\ close_waiters = 0
    /\ sent = <<>>
    /\ sender_exc = None
    /\ hb = "running"
    /\ transport_closed = 0
    /\ ready = <<>>
    /\ pc = [t \in Tasks |-> "idle"]
    /\ taskFut = [t \in Tasks |-> 0]
    /\ nframes = 0
    /\ lost = None
    /\ ended = FALSE
    /\ awaitLog = <<>>
    /\ calls = 0
    /\ matched = [m \in SyncMethods |-> 0]
    /\ dropped = [m \in SyncMethods |-> FALSE]
    /\ oc = "returned"
    /\ ocFut = 0
    /\ reader = [is_waiting |-> TRUE, pending_frames |-> <<>>]
    /\ handlers = (0 :> "reader.feed")
    /\ connection_info = ConnectionInfo @@ ("frame_max" :> 131072)
    /\ arrived = <<>>
    /\ channels = <<>>
    /\ wire = NoWire
    /\ engine = Protocol
    /\ dispatched = <<>>
    /\ NoConsumer
    /\ NoMonitor
    /\ bools \in UNION {[1..n -> BOOLEAN] : n \in 1..MaxBools}
    /\ packed = <<>>

PackBools ==
    /\ packed = <<>>
    /\ bools # <<>>
    /\ packed' = pack_bools(bools)
    /\ UNCHANGED <<bools, consumer, gets, returned, monitor>>
    /\ UNCHANGED <<channels, wire, engine, dispatched>>
    /\ UNCHANGED syncVars
    /\ UNCHANGED connVars
    /\ UNCHANGED histVars
    /\ UNCHANGED openVars

PackNext == PackBools

PackSpec == PackInit /\ [][PackNext]_vars

\* ---------------------------------------------------------------- MonitorSpec
\* The heartbeat monitor of an open connection, started by open_connection
\* with the interval of ConnectionTune: time passes in seconds, frames arrive.
\* the heartbeat intervals the server proposes (0 disables the monitor)
Intervals == {0, 1, 2}

\* protocol.start_heartbeat(heartbeat_interval): idle is the time since the
\* last inbound frame, now the time since the start
HeartbeatMonitor(interval) == [interval |-> interval, idle |-> 0, now |-> 0]

\* the monitor declaring the connection lost after one interval
Expired_AfterOneInterval(m) == m.interval > 0 /\ m.idle >= m.interval

\* no frame was received for twice the interval
Expired(m) == m.interval > 0 /\ m.idle >= 2 * m.interval

\* the frames that arrive in MonitorSpec: a heartbeat, and a method
MonitorFrames == {HeartbeatFrame, MethodFrame(0, ConnectionStart)}

\* AMQP.data_received for one whole frame: heartbeat_received() resets the
\* timer, then the frame is dispatched
InboundFrame(frame) ==
    /\ lost = None
    /\ transport_closed = 0
    /\ nframes < MaxFrames
    /\ nframes' = nframes + 1
    /\ monitor' = [monitor EXCEPT !.idle = 0]
    /\ ready' = ready \o dispatch(handlers, frame).called
    /\ UNCHANGED <<closing, close_waiters, sent, sender_exc, hb, transport_closed,
                   pc, taskFut, lost, ended>>
    /\ UNCHANGED <<channels, wire, engine, dispatched>>
    /\ UNCHANGED <<bools, packed, consumer, gets, returned>>
    /\ UNCHANGED syncVars
    /\ UNCHANGED histVars
    /\ UNCHANGED openVars

\* a second passes; when the monitor's timer expires the protocol dispatches
\* the poison pill with the heartbeat timeout as its cause
Tick ==
    /\ lost = None
    /\ transport_closed = 0
    /\ monitor.now < MaxTime
    /\ monitor' = [monitor EXCEPT !.idle = @ + 1, !.now = @ + 1]
    /\ IF Expired(monitor')
       THEN /\ lost' = "HeartbeatTimeout"
            /\ ended' = TRUE
            /\ ready' = ready \o dispatch_all(handlers,
                            PoisonPillFrame(ConnectionLostError("HeartbeatTimeout")))
       ELSE UNCHANGED <<lost, ended, ready>>
    /\ UNCHANGED <<closing, close_waiters, sent, sender_exc, hb, transport_closed,
                   pc, taskFut, nframes>>
    /\ UNCHANGED <<channels, wire, engine, dispatched>>
    /\ UNCHANGED <<bools, packed, consumer, gets, returned>>
    /\ UNCHANGED syncVars
    /\ UNCHANGED histVars
    /\ UNCHANGED openVars

MonitorInit ==
    /\ futures = SynchroniserInit.futures
    /\ connection_exc = SynchroniserInit.connection_exc
    /\ futs = SynchroniserInit.futs
    /\ closing = FALSE
    /\ close_waiters = 0
    /\ sent = <<>>
    /\ sender_exc = None
    /\ hb = "running"
    /\ transport_closed = 0
    /\ ready = <<>>
    /\ pc = [t \in Tasks |-> "idle"]
    /\ taskFut = [t \in Tasks |-> 0]
    /\ nframes = 0
    /\ lost = None
    /\ ended = FALSE
    /\ awaitLog = <<>>
    /\ calls = 0
    /\ matched = [m \in SyncMethods |-> 0]
    /\ dropped = [m \in SyncMethods |-> FALSE]
    /\ oc = "returned"
    /\ ocFut = 0
    /\ reader = [is_waiting |-> TRUE, pending_frames |-> <<>>]
    /\ handlers = (0 :> "reader.feed")
    /\ connection_info = ConnectionInfo @@ ("frame_max" :> 131072)
    /\ arrived = <<>>
    /\ channels = <<>>
    /\ wire = NoWire
    /\ engine = Protocol
    /\ dispatched = <<>>
    /\ NoPack
    /\ NoConsumer
    /\ monitor \in {HeartbeatMonitor(interval) : interval \in Intervals}

MonitorNext ==
    \/ Tick
    \/ \E frame \in MonitorFrames : InboundFrame(frame)
    \/ handle_ConnectionStart
    \/ handle_PoisonPillFrame

MonitorSpec == MonitorInit /\ [][MonitorNext]_vars

\* ---------------------------------------------------------------- ClosingSpec
\* An open connection that the client or the server closes or that is lost,
\* while the server sends every method the connection actor has a handler for, and one it has
\* none for.
BasicDeliver == [name |-> "BasicDeliver"]

ClosingFrames ==
    ServerFrames \cup {MethodFrame(0, ConnectionTune(0, 131072, 600)),
                       MethodFrame(0, ConnectionOpenOK),
                       MethodFrame(0, BasicDeliver)}

\* Actor.handle for a method without a handle_ method: the second getattr
\* raises AttributeError out of the callback
Actor_handle_AttributeError ==
    /\ Handling("BasicDeliver")
    /\ ready' = Tail(ready)
    /\ UNCHANGED <<closing, close_waiters, sent, sender_exc, hb, transport_closed,
                   pc, taskFut, nframes, lost, ended>>
    /\ UNCHANGED syncVars
    /\ UNCHANGED histVars
    /\ UNCHANGED wireVars
    /\ UNCHANGED openVars

ClosingNext ==
    \/ Close(1)
    \/ \E frame \in ClosingFrames : ServerSends(frame)
    \/ \E exc \in Causes : TransportLost(exc)
    \/ RunCallback
    \/ handle_ConnectionTune
    \/ handle_ConnectionOpenOK
    \/ Actor_handle_AttributeError

ClosingSpec == Init /\ [][ClosingNext]_vars

\* ---------------------------------------------------------------- ChannelSpec
\* An open connection with open channels. Each channel has its own
\* Synchroniser, on which its operations await their replies, and a queued
\* consumer with the get() calls that wait for a delivery.
Channel == [synchroniser |-> SynchroniserInit, getters |-> <<>>]

ChannelInit ==
    /\ futures = SynchroniserInit.futures
    /\ connection_exc = SynchroniserInit.connection_exc
    /\ futs = SynchroniserInit.futs
    /\ closing = FALSE
    /\ close_waiters = 0
    /\ sent = <<>>
    /\ sender_exc = None
    /\ hb = "running"
    /\ transport_closed = 0
    /\ ready = <<>>
    /\ pc = [t \in Tasks |-> "idle"]
    /\ taskFut = [t \in Tasks |-> 0]
    /\ nframes = 0
    /\ lost = None
    /\ ended = FALSE
    /\ awaitLog = <<>>
    /\ calls = 0
    /\ matched = [m \in SyncMethods |-> 0]
    /\ dropped = [m \in SyncMethods |-> FALSE]
    /\ oc = "returned"
    /\ ocFut = 0
    /\ reader = [is_waiting |-> TRUE, pending_frames |-> <<>>]
    /\ handlers = [c \in {0} \cup Channels |->
                      IF c = 0 THEN "reader.feed" ELSE "channel.reader.feed"]
    /\ connection_info = ConnectionInfo @@ ("frame_max" :> 131072)
    /\ arrived = <<>>
    /\ channels = [c \in Channels |-> Channel]
    /\ wire = NoWire
    /\ engine = Protocol
    /\ dispatched = <<>>
    /\ Quiet

Waits(c) == Len(channels[c].synchroniser.futs) + Len(channels[c].getters)

\* an operation of channel c (basic_get) awaits its reply
ChannelOperation(c) ==
    /\ Waits(c) < MaxChannelWaits
    /\ channels' = [channels EXCEPT ![c].synchroniser =
                        Await(@, <<"BasicGetOK", "BasicGetEmpty">>)]
    /\ UNCHANGED syncVars
    /\ UNCHANGED connVars
    /\ UNCHANGED histVars
    /\ UNCHANGED <<wire, engine, dispatched>>
    /\ UNCHANGED utilVars
    /\ UNCHANGED openVars

\* get() on the queued consumer of channel c, whose buffer is empty: it waits,
\* or raises at once when the channel was closed
ConsumerGet(c) ==
    /\ Waits(c) < MaxChannelWaits
    /\ channels' = [channels EXCEPT ![c].getters =
                        Append(@, IF channels[c].synchroniser.connection_exc # None
                                  THEN Failed(channels[c].synchroniser.connection_exc)
                                  ELSE Pending)]
    /\ UNCHANGED syncVars
    /\ UNCHANGED connVars
    /\ UNCHANGED histVars
    /\ UNCHANGED <<wire, engine, dispatched>>
    /\ UNCHANGED utilVars
    /\ UNCHANGED openVars

\* the actor of channel c handles the poison pill: every awaiter of the channel
\* and every waiting get() fails with the frame's exception
ChannelActor_handle_PoisonPillFrame(c) ==
    /\ ready # <<>>
    /\ Head(ready).cb = "channel.handle"
    /\ Head(ready).task = c
    /\ Head(ready).frame.type = "PoisonPillFrame"
    /\ channels' = [channels EXCEPT
                        ![c].synchroniser = Killall(@, Head(ready).frame.exception),
                        ![c].getters = [i \in DOMAIN @ |->
                            IF Done(@[i]) THEN @[i]
                            ELSE Failed(Head(ready).frame.exception)]]
    /\ ready' = Tail(ready)
    /\ UNCHANGED <<closing, close_waiters, sent, sender_exc, hb, transport_closed,
                   pc, taskFut, nframes, lost, ended>>
    /\ UNCHANGED syncVars
    /\ UNCHANGED histVars
    /\ UNCHANGED <<wire, engine, dispatched>>
    /\ UNCHANGED utilVars
    /\ UNCHANGED openVars

ChannelNext ==
    \/ \E c \in Channels : ChannelOperation(c)
    \/ \E c \in Channels : ConsumerGet(c)
    \/ \E c \in Channels : ChannelActor_handle_PoisonPillFrame(c)
    \/ Close(1)
    \/ \E frame \in ServerFrames : ServerSends(frame)
    \/ \E exc \in Causes : TransportLost(exc)
    \/ RunCallback

ChannelSpec == ChannelInit /\ [][ChannelNext]_vars

\* ===================================================================== claims
\* --------------------------------------------------------------------- IdSpec
\* Connection.open_channel and the closing of channels on an open connection
\* whose handshake agreed on a channel_max (0: no limit).
IdTunes == {ConnectionTune(0, 131072, 600), ConnectionTune(2, 131072, 600)}

\* the channel_max the handshake agreed on: the one of the ConnectionTuneOK sent
NegotiatedChannelMax ==
    LET i == CHOOSE i \in DOMAIN sent : sent[i].method.name = "ConnectionTuneOK"
    IN  sent[i].method.channel_max

\* the limit the ChannelFactory can know: it is given connection_info, in
\* which open_connection records frame_max only (0: no limit)
FactoryChannelMax(info) ==
    IF "channel_max" \in DOMAIN info THEN info["channel_max"] ELSE 0

\* the lowest positive channel id without a handler
LowestFreeId(hs) == CHOOSE c \in 1..(Cardinality(DOMAIN hs) + 1) :
                        /\ c \notin DOMAIN hs
                        /\ \A d \in 1..(c - 1) : d \in DOMAIN hs

ChannelOpen == [name |-> "ChannelOpen"]

\* Connection.open_channel: channel_factory.open()
OpenChannel ==
    LET channel_id == LowestFreeId(handlers)
    IN  /\ Len(sent) < MaxOpens + 2
        /\ lost = None
        /\ ~closing
        /\ FactoryChannelMax(connection_info) = 0
              \/ channel_id <= FactoryChannelMax(connection_info)
        /\ handlers' = add_handler(handlers, channel_id, "channel.reader.feed")
        /\ channels' = [c \in DOMAIN channels \cup {channel_id} |->
                           IF c = channel_id THEN Channel ELSE channels[c]]
        /\ sent' = Append(sent, send_method(channel_id, ChannelOpen))
        /\ UNCHANGED <<closing, close_waiters, sender_exc, hb, transport_closed,
                       ready, pc, taskFut, nframes, lost, ended>>
        /\ UNCHANGED <<oc, ocFut, reader, connection_info, arrived>>
        /\ UNCHANGED <<wire, engine, dispatched>>
        /\ UNCHANGED utilVars
        /\ UNCHANGED syncVars
        /\ UNCHANGED histVars

\* Channel.close() of channel c, completed: its handler is removed and its id
\* is free again
CloseChannel(c) ==
    /\ c \in DOMAIN channels
    /\ handlers' = remove_handler(handlers, c)
    /\ channels' = [d \in DOMAIN channels \ {c} |-> channels[d]]
    /\ UNCHANGED <<closing, close_waiters, sent, sender_exc, hb, transport_closed,
                   ready, pc, taskFut, nframes, lost, ended>>
    /\ UNCHANGED <<oc, ocFut, reader, connection_info, arrived>>
    /\ UNCHANGED <<wire, engine, dispatched>>
    /\ UNCHANGED utilVars
    /\ UNCHANGED syncVars
    /\ UNCHANGED histVars

IdInit ==
    /\ futures = SynchroniserInit.futures
    /\ connection_exc = SynchroniserInit.connection_exc
    /\ futs = SynchroniserInit.futs
    /\ closing = FALSE
    /\ close_waiters = 0
    /\ sent \in {<<send_TuneOK(tune.channel_max, tune.frame_max, tune.heartbeat),
                    send_Open(ConnectionInfo.virtual_host)>> : tune \in IdTunes}
    /\ sender_exc = None
    /\ hb = "running"
    /\ transport_closed = 0
    /\ ready = <<>>
    /\ pc = [t \in Tasks |-> "idle"]
    /\ taskFut = [t \in Tasks |-> 0]
    /\ nframes = 0
    /\ lost = None
    /\ ended = FALSE
    /\ awaitLog = <<>>
    /\ calls = 0
    /\ matched = [m \in SyncMethods |-> 0]
    /\ dropped = [m \in SyncMethods |-> FALSE]
    /\ oc = "returned"
    /\ ocFut = 0
    /\ reader = [is_waiting |-> TRUE, pending_frames |-> <<>>]
    /\ handlers = (0 :> "reader.feed")
    /\ connection_info = ConnectionInfo @@ ("frame_max" :> 131072)
    /\ arrived = <<>>
    /\ channels = <<>>
    /\ wire = NoWire
    /\ engine = Protocol
    /\ dispatched = <<>>
    /\ Quiet

IdNext ==
    \/ OpenChannel
    \/ \E c \in 1..MaxOpens : CloseChannel(c)

IdSpec == IdInit /\ [][IdNext]_vars

\* --------------------------------------------------------------- ConsumerSpec
\* A queued consumer after ConsumeOK. Deliveries are numbered in arrival order.
\* gets holds one record per get()/getmany() call: its kind, its future and,
\* as history, the exception the consumer had recorded when the call was made.
\* returned lists the deliveries handed to the application, in return order.
QueuedConsumer(no_ack) ==
    [no_ack |-> no_ack, state |-> "Active", buffer |-> <<>>, exc |-> None,
     delivered |-> 0]

GetKinds == {"get", "getmany"}

\* take, were get() to hand out the newest delivery
take_Newest(kind, buffer) ==
    IF kind = "get" THEN <<buffer[Len(buffer)]>> ELSE buffer
\* what a call of the given kind takes from a buffer that is not empty
take(kind, buffer) == IF kind = "get" THEN <<Head(buffer)>> ELSE buffer
\* what it leaves
leave(kind, buffer) == IF kind = "get" THEN Tail(buffer) ELSE <<>>
\* what the call returns for the deliveries it took
result_of(kind, taken) == IF kind = "get" THEN taken[1] ELSE taken

\* the oldest call still waiting, 0 if there is none
FirstWaiter(gs) ==
    IF \E i \in DOMAIN gs : ~Done(gs[i].fut)
    THEN CHOOSE i \in DOMAIN gs : /\ ~Done(gs[i].fut)
                                  /\ \A j \in 1..(i - 1) : Done(gs[j].fut)
    ELSE 0

\* fail_waiters, were the waiting calls left waiting
fail_waiters_Forgotten(gs, exc) == gs
\* every waiting call fails with exc
fail_waiters(gs, exc) ==
    [i \in DOMAIN gs |-> IF Done(gs[i].fut) THEN gs[i]
                                             ELSE [gs[i] EXCEPT !.fut = Failed(exc)]]

\* cancelled, were the cancellation to drop what is buffered
cancelled_DropsBuffer(c, state) ==
    [c EXCEPT !.state = state, !.exc = "ConsumerCancelled", !.buffer = <<>>]
\* the consumer once its cancellation is over: what is buffered stays
cancelled(c, state) == [c EXCEPT !.state = state, !.exc = "ConsumerCancelled"]

\* connection_closed, were the buffer dropped whatever no_ack is
connection_closed_Discards(c) ==
    [c EXCEPT !.state = "Closed", !.exc = "ClientConnectionClosed",
              !.buffer = <<>>]
\* connection_closed, were the buffer kept whatever no_ack is
connection_closed_Keeps(c) ==
    [c EXCEPT !.state = "Closed", !.exc = "ClientConnectionClosed"]
\* the consumer once the client closed the connection: what is buffered stays
\* only if the broker counts it as delivered (no_ack)
connection_closed(c) ==
    [c EXCEPT !.state = "Closed", !.exc = "ClientConnectionClosed",
              !.buffer = IF c.no_ack THEN @ ELSE <<>>]

\* a complete delivery reaches the consumer
Deliver ==
    LET msg == consumer.delivered + 1
        i == FirstWaiter(gets)
    IN  /\ consumer.exc = None
        /\ consumer.delivered < MaxDeliveries
        /\ IF i = 0
           THEN /\ consumer' = [consumer EXCEPT !.delivered = msg,
                                                !.buffer = Append(@, msg)]
                /\ UNCHANGED <<gets, returned>>
           ELSE /\ consumer' = [consumer EXCEPT !.delivered = msg]
                /\ gets' = [gets EXCEPT ![i].fut =
                                Resolved(result_of(gets[i].kind, <<msg>>))]
                /\ returned' = Append(returned, msg)
        /\ UNCHANGED <<bools, packed, monitor>>
        /\ UNCHANGED <<channels, wire, engine, dispatched>>
        /\ UNCHANGED syncVars
        /\ UNCHANGED connVars
        /\ UNCHANGED histVars
        /\ UNCHANGED openVars

\* QueuedConsumer.get() and QueuedConsumer.getmany()
QueuedConsumer_get(kind) ==
    /\ Len(gets) < MaxGets
    /\ IF consumer.buffer # <<>>
       THEN LET taken == take(kind, consumer.buffer)
            IN  /\ gets' = Append(gets, [kind |-> kind, when |-> consumer.exc,
                                         fut |-> Resolved(result_of(kind, taken))])
                /\ consumer' = [consumer EXCEPT !.buffer = leave(kind, @)]
                /\ returned' = returned \o taken
       ELSE /\ gets' = Append(gets, [kind |-> kind, when |-> consumer.exc,
                                     fut |-> IF consumer.exc # None
                                             THEN Failed(consumer.exc)
                                             ELSE Pending])
            /\ UNCHANGED <<consumer, returned>>
    /\ UNCHANGED <<bools, packed, monitor>>
    /\ UNCHANGED <<channels, wire, engine, dispatched>>
    /\ UNCHANGED syncVars
    /\ UNCHANGED connVars
    /\ UNCHANGED histVars
    /\ UNCHANGED openVars

\* QueuedConsumer.cancel(), up to sending Basic.Cancel
QueuedConsumer_cancel ==
    /\ consumer.state = "Active"
    /\ consumer' = [consumer EXCEPT !.state = "ClientCancelled"]
    /\ UNCHANGED <<gets, returned>>
    /\ UNCHANGED <<bools, packed, monitor>>
    /\ UNCHANGED <<channels, wire, engine, dispatched>>
    /\ UNCHANGED syncVars
    /\ UNCHANGED connVars
    /\ UNCHANGED histVars
    /\ UNCHANGED openVars

\* CancelOK arrives: cancel() completes
CancelOK ==
    /\ consumer.state = "ClientCancelled"
    /\ consumer.exc = None
    /\ consumer' = cancelled(consumer, "ClientCancelled")
    /\ gets' = fail_waiters(gets, "ConsumerCancelled")
    /\ UNCHANGED returned
    /\ UNCHANGED <<bools, packed, monitor>>
    /\ UNCHANGED <<channels, wire, engine, dispatched>>
    /\ UNCHANGED syncVars
    /\ UNCHANGED connVars
    /\ UNCHANGED histVars
    /\ UNCHANGED openVars

\* the server sends Basic.Cancel for the consumer's tag
ServerCancel ==
    /\ consumer.state = "Active"
    /\ consumer' = cancelled(consumer, "ServerCancelled")
    /\ gets' = fail_waiters(gets, "ConsumerCancelled")
    /\ UNCHANGED returned
    /\ UNCHANGED <<bools, packed, monitor>>
    /\ UNCHANGED <<channels, wire, engine, dispatched>>
    /\ UNCHANGED syncVars
    /\ UNCHANGED connVars
    /\ UNCHANGED histVars
    /\ UNCHANGED openVars

\* the client closes the connection while the consumer is registered
ConnectionClosedByClient ==
    /\ consumer.exc = None
    /\ consumer' = connection_closed(consumer)
    /\ gets' = fail_waiters(gets, "ClientConnectionClosed")
    /\ UNCHANGED returned
    /\ UNCHANGED <<bools, packed, monitor>>
    /\ UNCHANGED <<channels, wire, engine, dispatched>>
    /\ UNCHANGED syncVars
    /\ UNCHANGED connVars
    /\ UNCHANGED histVars
    /\ UNCHANGED openVars

ConsumerInit ==
    /\ futures = SynchroniserInit.futures
    /\ connection_exc = SynchroniserInit.connection_exc
    /\ futs = SynchroniserInit.futs
    /\ closing = FALSE
    /\ close_waiters = 0
    /\ sent = <<>>
    /\ sender_exc = None
    /\ hb = "running"
    /\ transport_closed = 0
    /\ ready = <<>>
    /\ pc = [t \in Tasks |-> "idle"]
    /\ taskFut = [t \in Tasks |-> 0]
    /\ nframes = 0
    /\ lost = None
    /\ ended = FALSE
    /\ awaitLog = <<>>
    /\ calls = 0
    /\ matched = [m \in SyncMethods |-> 0]
    /\ dropped = [m \in SyncMethods |-> FALSE]
    /\ oc = "returned"
    /\ ocFut = 0
    /\ reader = [is_waiting |-> TRUE, pending_frames |-> <<>>]
    /\ handlers = (0 :> "reader.feed")
    /\ connection_info = ConnectionInfo @@ ("frame_max" :> 131072)
    /\ arrived = <<>>
    /\ channels = <<>>
    /\ wire = NoWire
    /\ engine = Protocol
    /\ dispatched = <<>>
    /\ NoPack
    /\ NoMonitor
    /\ consumer \in {QueuedConsumer(no_ack) : no_ack \in BOOLEAN}
    /\ gets = <<>>
    /\ returned = <<>>

ConsumerNext ==
    \/ Deliver
    \/ \E kind \in GetKinds : QueuedConsumer_get(kind)
    \/ QueuedConsumer_cancel
    \/ CancelOK
    \/ ServerCancel
    \/ ConnectionClosedByClient

ConsumerSpec == ConsumerInit /\ [][ConsumerNext]_vars

\* ---------------------------------------------------------------- Synchroniser
Accepts(fut, method) ==
    \E i \in DOMAIN awaitLog[fut] : awaitLog[fut][i] = method

\* the awaits that accepted method, in registration order
RegisteredFor(method) ==
    SelectSeq([f \in DOMAIN awaitLog |-> f], LAMBDA f : Accepts(f, method))

\* every await that accepted method accepted nothing else
SingleMethod(method) ==
    \A f \in DOMAIN awaitLog : Accepts(f, method) => awaitLog[f] = <<method>>

\* what a notification carrying result makes of the waiter it is matched with
Notified(f, result) == IF f.st = "cancelled" THEN Cancelled ELSE Resolved(result)

\* C1: awaits a_1..a_k registered on the single method m are resolved in
\* registration order: while every notify(m) so far found its waiter and
\* nothing was killed, the i-th call notify(m, r_i) resolves a_i with r_i; if
\* a_i was cancelled it stays cancelled and r_i goes to nobody, and no other
\* waiter changes, so a_(i+1) still waits for the (i+1)-th call.
C1_RegistrationOrder ==
    [][\A m \in SyncMethods :
        LET i == matched[m] + 1
            a == RegisteredFor(m)[i]
        IN  (/\ DoNotify(m)
             /\ SingleMethod(m)
             /\ ~dropped[m]
             /\ connection_exc = None
             /\ i <= Len(RegisteredFor(m)))
            => /\ futs'[a] = Notified(futs[a], calls + 1)
               /\ \A f \in DOMAIN futs \ {a} : futs'[f] = futs[f]]_vars

\* C1 witness: three awaits on BasicGetOK, the first cancelled; the first
\* notify skipped it and the second resolved the second await with its result.
C1_Witness ==
    /\ Len(awaitLog) = 3
    /\ \A f \in 1..3 : awaitLog[f] = <<"BasicGetOK">>
    /\ futs[1] = Cancelled
    /\ futs[2] = Resolved(2)
    /\ futs[3] = Pending
    /\ matched["BasicGetOK"] = 2

\* C2: killall(e) fails every waiter outstanding at the call with e and empties
\* all queues, and an await issued after it returns a future already failed
\* with e.
C2_KillallFailsAll ==
    [][/\ \A e \in SyncExcs :
            DoKillall(e) =>
                /\ \A f \in DOMAIN futs :
                       futs'[f] = IF Done(futs[f]) THEN futs[f] ELSE Failed(e)
                /\ \A m \in Methods : futures'[m] = <<>>
                /\ connection_exc' = e
       /\ \A expected_methods \in Tuples :
            (DoAwait(expected_methods) /\ connection_exc # None) =>
                /\ futs'[Len(futs) + 1] = Failed(connection_exc)
                /\ \A m \in Methods : futures'[m] = <<>>]_vars

\* C3 as stated: the k-th call notify(m) resolves the k-th registered await
\* whose accepted set contained m (cancelled awaits are not resolved but count).
C3_KthAwaitAccepting ==
    [][\A m \in SyncMethods :
        LET k == matched[m] + 1
            a == RegisteredFor(m)[k]
        IN  (/\ DoNotify(m)
             /\ ~dropped[m]
             /\ connection_exc = None
             /\ k <= Len(RegisteredFor(m)))
            => futs'[a] = Notified(futs[a], calls + 1)]_vars

\* the awaits that still have a record in method's queue
QueuedFor(method) ==
    {f \in DOMAIN futs : \E i \in DOMAIN futures[method] : futures[method][i].fut = f}

\* C3 amended: a call notify(m) that finds a waiter takes, among the awaits
\* accepting m that are still queued under m, the one registered first (awaits
\* already consumed through another of their methods no longer count); it
\* resolves that await with the result if it is pending, leaves it as it is
\* otherwise, and changes no other await.
C3_EarliestQueued ==
    [][\A m \in SyncMethods :
        (DoNotify(m) /\ QueuedFor(m) # {})
        => \E a \in QueuedFor(m) :
               /\ \A f \in QueuedFor(m) : a <= f
               /\ Accepts(a, m)
               /\ futs'[a] = IF Done(futs[a]) THEN futs[a] ELSE Resolved(calls + 1)
               /\ \A f \in DOMAIN futs \ {a} : futs'[f] = futs[f]
               /\ futures'[m] = Tail(futures[m])
               /\ Head(futures[m]).fut = a]_vars

\* C3 witness: the pair await was consumed by BasicGetOK, so the first
\* notify(BasicGetEmpty) resolved the second await accepting BasicGetEmpty.
C3_Witness ==
    /\ Len(awaitLog) >= 2
    /\ awaitLog[1] = <<"BasicGetOK", "BasicGetEmpty">>
    /\ awaitLog[2] = <<"BasicGetEmpty">>
    /\ futs[1] = Resolved(1)
    /\ futs[2] = Resolved(2)
    /\ matched["BasicGetEmpty"] = 1

\* C4: whenever notify(m) pops a waiter that accepts several methods, the head
\* of every other accepted method's queue is that same waiter record.
C4_SameRecordAtEveryHead ==
    [][\A m \in SyncMethods :
        (DoNotify(m) /\ futures[m] # <<>> /\ Len(Head(futures[m]).methods) > 1)
        => \A i \in DOMAIN Head(futures[m]).methods :
               LET other == Head(futures[m]).methods[i]
               IN  other # m =>
                       /\ futures[other] # <<>>
                       /\ Head(futures[other]) = Head(futures[m])]_vars

\* the queues without the records of fut
WithoutRecordsOf(fs, fut) ==
    [m \in Methods |-> SelectSeq(fs[m], LAMBDA w : w.fut # fut)]

\* C5: if the head waiter for m was cancelled before notify(m, r), the call
\* consumes exactly that waiter record: no future changes, so r goes to
\* nobody and the next waiter stays pending, and no other record is removed.
C5_CancelledHeadConsumed ==
    [][\A m \in SyncMethods :
        (/\ DoNotify(m)
         /\ futures[m] # <<>>
         /\ futs[Head(futures[m]).fut] = Cancelled)
        => /\ futs' = futs
           /\ futures' = WithoutRecordsOf(futures, Head(futures[m]).fut)]_vars

\* ------------------------------------------------------------------ Connection
SCC == "ServerConnectionClosed"
\* what close() sends to close an open connection
ClientClose == send_Close(0, "Connection closed by application", 0, 0)
CCC == "ClientConnectionClosed"

\* task t has sent ConnectionClose and waits for ConnectionCloseOK
AwaitingCloseOK(t) == pc[t] = "awaiting" /\ ~Done(futs[taskFut[t]])

Scheduled(cb) == \E i \in DOMAIN ready : ready[i] = cb

\* C6: simultaneous close. When the server's ConnectionClose is handled while
\* close() waits for ConnectionCloseOK, the handling step sends
\* ConnectionCloseOK, sets the closing flag, records ServerConnectionClosed in
\* the synchroniser and fails the waiter of close() with it; close() never
\* raises, and once the server's ConnectionClose has arrived the waiting
\* close() returns.
C6_SimultaneousClose ==
    /\ [][\A t \in Tasks :
            (handle_ConnectionClose /\ AwaitingCloseOK(t))
            => /\ sent' = Append(sent, send_CloseOK)
               /\ closing'
               /\ connection_exc' = SCC
               /\ futs'[taskFut[t]] = Failed(SCC)]_vars
    /\ [](\A t \in Tasks : pc[t] # "raised")
    /\ \A t \in Tasks :
          (AwaitingCloseOK(t) /\ Scheduled(Callback("handle", MethodFrame(0, ServerClose), 0)))
              ~> (pc[t] = "returned")

\* C6 witness: the two Close methods crossed; close() has returned after its
\* waiter was failed with ServerConnectionClosed.
C6_Witness ==
    /\ pc[1] = "returned"
    /\ taskFut[1] = 1
    /\ futs[1] = Failed(SCC)
    /\ sent = <<ClientClose, send_CloseOK>>
    /\ closing
    /\ connection_exc = SCC

\* C7: handling a server ConnectionClose sends ConnectionCloseOK, sets the
\* closing flag, stops the heartbeat monitor and fails every outstanding waiter
\* with ServerConnectionClosed without closing the transport, whose close is
\* scheduled; the scheduled close runs only after ConnectionCloseOK was handed
\* to the transport.
C7_ServerClose ==
    [][/\ handle_ConnectionClose
          => /\ sent' = Append(sent, send_CloseOK)
             /\ closing'
             /\ hb' # "running"
             /\ connection_exc' = SCC
             /\ \A f \in DOMAIN futs :
                    futs'[f] = IF Done(futs[f]) THEN futs[f] ELSE Failed(SCC)
             /\ transport_closed' = transport_closed
             /\ ready'[Len(ready')] = Callback("transport.close", None, 0)
       /\ TransportClose
          => \E i \in DOMAIN sent : sent[i] = send_CloseOK]_vars

\* C7 witness: a server close was handled while a waiter was outstanding: the
\* reply is sent, the waiter failed, the transport still open, its close scheduled.
C7_Witness ==
    /\ sent = <<ClientClose, send_CloseOK>>
    /\ futs = <<Failed(SCC)>>
    /\ hb = "stopping"
    /\ transport_closed = 0
    /\ Scheduled(Callback("transport.close", None, 0))

\* C8: when ConnectionCloseOK is handled while close() waits for it, the
\* closing flag is set, that waiter is resolved, every other outstanding
\* await fails with ClientConnectionClosed and so does an await issued next,
\* and the transport is closed in the same step.
C8_CloseOK ==
    [][\A t \in Tasks :
        (handle_ConnectionCloseOK /\ AwaitingCloseOK(t))
        => /\ closing'
           /\ futs'[taskFut[t]] = Resolved(None)
           /\ \A f \in DOMAIN futs \ {taskFut[t]} :
                  futs'[f] = IF Done(futs[f]) THEN futs[f] ELSE Failed(CCC)
           /\ connection_exc' = CCC
           /\ LET after == [futures |-> futures', connection_exc |-> connection_exc',
                            futs |-> futs']
              IN  Await(after, <<"ConnectionCloseOK">>).futs[Len(futs') + 1] = Failed(CCC)
           /\ transport_closed' = transport_closed + 1]_vars

\* C8 witness: the client close completed: the waiter resolved, the transport closed.
C8_Witness ==
    /\ sent = <<ClientClose>>
    /\ futs = <<Resolved(None)>>
    /\ closing
    /\ connection_exc = CCC
    /\ transport_closed = 1

\* the connection is closed: a close was completed by a handler of the actor
Closed == closing /\ connection_exc # None

\* C9: close() on a connection that is already closed sends nothing, changes
\* neither the connection nor the synchroniser, does not raise, and returns
\* (after the gather over the close waiters).
C9_CloseWhenClosed ==
    /\ [][\A t \in Tasks :
            (Close(t) /\ Closed)
            => /\ sent' = sent
               /\ pc'[t] \in {"gathering", "returned"}
               /\ UNCHANGED <<closing, close_waiters, transport_closed, ready>>
               /\ UNCHANGED syncVars]_vars
    /\ [](\A t \in Tasks : pc[t] # "raised")
    /\ \A t \in Tasks : (pc[t] = "gathering") ~> (pc[t] = "returned")

\* C9 witness: close() was called after the server had closed the connection:
\* it awaited no future, sent nothing and gathers the close waiters.
C9_Witness ==
    /\ pc[1] = "gathering"
    /\ taskFut[1] = 0
    /\ sent = <<send_CloseOK>>
    /\ connection_exc = SCC

\* C10: once the server has sent ConnectionClose or the transport was lost, a
\* close() that waits, for ConnectionCloseOK or for the close waiters, returns.
C10_CloseNeverHangs ==
    \A t \in Tasks :
        (ended /\ pc[t] \in {"awaiting", "gathering"}) ~> (pc[t] = "returned")

\* C10 witness: close() was waiting for ConnectionCloseOK when the transport
\* was lost; its waiter failed with ConnectionLostError and it has returned.
C10_Witness ==
    /\ pc[1] = "returned"
    /\ taskFut[1] = 1
    /\ futs[1] \in {Failed(ConnectionLostError(exc)) : exc \in Causes}
    /\ lost # None
    /\ hb = "stopped"

\* C11: close() on an open connection sends exactly
\* ConnectionClose(0, 'Connection closed by application', 0, 0) on channel 0,
\* registers a waiter for ConnectionCloseOK and suspends; it leaves that wait
\* only when ConnectionCloseOK has arrived (the waiter is resolved), the server
\* has closed the connection or the transport was lost (the waiter failed with
\* ServerConnectionClosed or with the ConnectionLostError of the loss).
C11_CloseSendsAndWaits ==
    /\ [][\A t \in Tasks :
            (Close(t) /\ ~closing /\ connection_exc = None)
            => /\ sent' = Append(sent, send_method(0,
                       ConnectionClose(0, "Connection closed by application", 0, 0)))
               /\ pc'[t] = "awaiting"
               /\ taskFut'[t] = Len(futs) + 1
               /\ futs' = Append(futs, Pending)
               /\ futures' = [futures EXCEPT !["ConnectionCloseOK"] =
                                 Append(@, [fut |-> Len(futs) + 1,
                                            methods |-> <<"ConnectionCloseOK">>])]]_vars
    /\ [][\A t \in Tasks :
            (pc[t] = "awaiting" /\ pc'[t] # "awaiting")
            => \/ futs[taskFut[t]] = Resolved(None)
               \/ futs[taskFut[t]] = Failed(SCC)
               \/ /\ lost # None
                  /\ futs[taskFut[t]] = Failed(ConnectionLostError(lost))]_vars

\* C11 witness: close() sent its ConnectionClose, waited, and has returned
\* after ConnectionCloseOK arrived.
C11_Witness ==
    /\ pc[1] = "returned"
    /\ taskFut[1] = 1
    /\ futs[1] = Resolved(None)
    /\ sent = <<ClientClose>>
    /\ hb = "stopped"

\* ------------------------------------------------------------------- handshake
Arrived(payload) == \E j \in DOMAIN arrived : arrived[j].payload = payload

\* what open_connection sends when the server tunes the connection with tune
HandshakeSends(tune) ==
    <<send_protocol_header,
      send_method(0, ConnectionStartOK([product |-> "asynqp", version |-> "0.1",
                                        platform |-> "sys.version"],
                                       "AMQPLAIN",
                                       [LOGIN |-> "guest", PASSWORD |-> "guest"],
                                       "en_US")),
      send_method(0, ConnectionTuneOK(tune.channel_max, tune.frame_max,
                                      tune.heartbeat)),
      send_method(0, ConnectionOpen("/", "", FALSE))>>

\* C12: the handshake is a fixed sequence. What was sent is always a prefix of
\* protocol header, ConnectionStartOK(AMQPLAIN, {LOGIN, PASSWORD}, en_US),
\* ConnectionTuneOK with the values of a ConnectionTune the server sent,
\* ConnectionOpen(virtual_host, '', false); ConnectionStartOK is there only if
\* ConnectionStart has arrived, ConnectionTuneOK only if that ConnectionTune
\* has arrived and never without the ConnectionOpen right after it, and
\* open_connection has returned only if ConnectionOpenOK has arrived.
C12_HandshakeSequence ==
    /\ \E tune \in Tunes :
          /\ Len(sent) <= 4
          /\ sent = SubSeq(HandshakeSends(tune), 1, Len(sent))
          /\ Len(sent) >= 3 => Arrived(tune)
    /\ Len(sent) >= 2 => Arrived(ConnectionStart)
    /\ Len(sent) # 3
    /\ oc # "start" => Len(sent) >= 1
    /\ oc = "returned" => Len(sent) = 4 /\ Arrived(ConnectionOpenOK)

\* C12 witness: the handshake is complete with the second of the server's
\* tunings, and open_connection has returned.
C12_Witness ==
    /\ oc = "returned"
    /\ sent = HandshakeSends(ConnectionTune(2047, 4096, 60))
    /\ connection_info["frame_max"] = 4096
    /\ hb = "running"

\* every future of the connection's synchroniser and of every channel, with
\* every waiting get()
Outstanding ==
    {futs[f] : f \in DOMAIN futs}
        \cup UNION {{channels[c].synchroniser.futs[f] :
                        f \in DOMAIN channels[c].synchroniser.futs} : c \in DOMAIN channels}
        \cup UNION {{channels[c].getters[g] :
                        g \in DOMAIN channels[c].getters} : c \in DOMAIN channels}

FailedBy(before, after, exc) ==
    /\ Len(after) = Len(before)
    /\ \A f \in DOMAIN before :
          after[f] = IF before[f] = Pending THEN Failed(exc) ELSE before[f]

\* C13: when the transport is lost, a poison pill carrying the cause is
\* scheduled for the handler of channel 0 and of every channel. The connection
\* actor, handling it, marks the connection closing, stops the heartbeat
\* monitor, fails every pending await of the connection with a
\* ConnectionLostError whose original_exc is the cause, makes every later await
\* fail the same way, sends nothing and does not close the transport. The actor
\* of a channel fails the channel's pending awaits and get()s the same way, and
\* later ones too. Once every pill is handled nothing is left pending.
C13_PoisonPill ==
    /\ [][\A exc \in Causes :
            TransportLost(exc)
            => /\ Len(ready') = Len(ready) + Cardinality(DOMAIN handlers)
               /\ SubSeq(ready', 1, Len(ready)) = ready
               /\ \A c \in DOMAIN handlers :
                     \E i \in (Len(ready) + 1)..Len(ready') :
                        /\ ready'[i].task = c
                        /\ ready'[i].cb = IF c = 0 THEN "handle" ELSE "channel.handle"
                        /\ ready'[i].frame.type = "PoisonPillFrame"
                        /\ original_exc(ready'[i].frame.exception) = exc]_vars
    /\ [][handle_PoisonPillFrame
            => /\ closing'
               /\ hb' # "running"
               /\ connection_exc' = ConnectionLostError(lost)
               /\ original_exc(connection_exc') = lost
               /\ FailedBy(futs, futs', ConnectionLostError(lost))
               /\ Await([futures |-> futures', connection_exc |-> connection_exc',
                         futs |-> futs'], <<"ConnectionCloseOK">>).futs[Len(futs') + 1]
                      = Failed(ConnectionLostError(lost))
               /\ sent' = sent
               /\ transport_closed' = transport_closed
               /\ \A i \in DOMAIN ready' : ready'[i].cb # "transport.close"
                                             \/ \E j \in DOMAIN ready : ready[j] = ready'[i]]_vars
    /\ [][\A c \in Channels :
            ChannelActor_handle_PoisonPillFrame(c)
            => /\ FailedBy(channels[c].synchroniser.futs, channels'[c].synchroniser.futs,
                           ConnectionLostError(lost))
               /\ FailedBy(channels[c].getters, channels'[c].getters,
                           ConnectionLostError(lost))
               /\ channels'[c].synchroniser.connection_exc = ConnectionLostError(lost)]_vars
    /\ [][\A c \in Channels :
            channels[c].synchroniser.connection_exc # None
            => /\ lost # None
               /\ ChannelOperation(c)
                    => channels'[c].synchroniser.futs
                         = Append(channels[c].synchroniser.futs,
                                  Failed(ConnectionLostError(lost)))
               /\ ConsumerGet(c)
                    => channels'[c].getters
                         = Append(channels[c].getters,
                                  Failed(ConnectionLostError(lost)))]_vars
    /\ [](lost # None /\ ready = <<>> => Pending \notin Outstanding)

\* a close() and an operation and a get() of the channels were waiting when the
\* transport was lost, and all of them failed with the loss
C13_Witness ==
    /\ lost = "ConnectionResetError"
    /\ ready = <<>>
    /\ closing
    /\ hb # "running"
    /\ sent = <<ClientClose>>
    /\ transport_closed = 0
    /\ futs = <<Failed(ConnectionLostError("ConnectionResetError"))>>
    /\ channels[1].synchroniser.futs = <<Failed(ConnectionLostError("ConnectionResetError"))>>
    /\ channels[2].getters = <<Failed(ConnectionLostError("ConnectionResetError"))>>

\* C14: once the connection actor has handled the server's ConnectionClose, the
\* transport is closed and every scheduled callback has run, every operation
\* and get() that was pending on an open channel has failed with
\* ServerConnectionClosed and every channel is closed with that exception.
C14_ServerCloseFailsChannels ==
    (connection_exc = SCC /\ transport_closed > 0 /\ ready = <<>>)
    => \A c \in Channels :
          /\ channels[c].synchroniser.connection_exc = SCC
          /\ \A f \in DOMAIN channels[c].synchroniser.futs :
                channels[c].synchroniser.futs[f] = Failed(SCC)
          /\ \A g \in DOMAIN channels[c].getters :
                channels[c].getters[g] = Failed(SCC)

Discards ==
    \/ handle_ConnectionStart
    \/ handle_ConnectionTune
    \/ handle_ConnectionOpenOK
    \/ Actor_handle_AttributeError

\* C16: once the connection is closing, a method frame of channel 0 other than
\* ConnectionClose and ConnectionCloseOK is discarded by the actor: nothing is
\* sent, no waiter is resolved or removed, the transport is left alone and no
\* task is woken.
C16_DiscardedWhileClosing ==
    [][(Discards /\ closing)
         => /\ sent' = sent
            /\ futs' = futs
            /\ futures' = futures
            /\ connection_exc' = connection_exc
            /\ transport_closed' = transport_closed
            /\ ready' = Tail(ready)]_vars

\* close() has sent ConnectionClose and still waits for ConnectionCloseOK after
\* two other methods of the server were handled
C16_Witness ==
    /\ closing
    /\ sent = <<ClientClose>>
    /\ futs = <<Pending>>
    /\ pc[1] = "awaiting"
    /\ nframes = 2
    /\ ready = <<>>
    /\ transport_closed = 0

\* ---- the byte stream of WireSpec
\* the octets of the stream that have arrived
Delivered == Len(Bytes(wire.frames)) - Len(wire.stream)
\* the offset of the last octet of the k-th frame of the stream
EndOffset(k) == Len(Bytes(SubSeq(wire.frames, 1, k)))
\* the number of frames whose last octet has arrived
Whole == Cardinality({k \in DOMAIN wire.frames : EndOffset(k) <= Delivered})
\* the frame an item of the stream stands for
FrameOf(item) ==
    IF item.frame.frame_type = FRAME_HEARTBEAT THEN HeartbeatFrame
    ELSE MethodFrame(item.frame.channel_id,
                     IF item.frame.payload = RawConnectionOpenOK THEN ConnectionOpenOK
                     ELSE [name |-> "BasicGetEmpty"])
Registered(frame) == frame.type = "HeartbeatFrame" \/ frame.channel_id \in DOMAIN handlers
\* a frame that ends in the frame-end octet, for a channel that has a handler
WellFormed(item) == item.frame_end = FRAME_END /\ Registered(FrameOf(item))

\* C17: for a stream of N well-formed frames delivered in any chunks, empty
\* ones included, the frames dispatched so far are exactly the frames whose
\* last octet has arrived, in the order of the stream; the octets that follow
\* them are retained in the buffer, not dispatched; nothing is raised, and
\* when the whole stream has arrived N frames were dispatched.
C17_FramesInOrder ==
    (\A i \in DOMAIN wire.frames : WellFormed(wire.frames[i]))
    => /\ dispatched = [k \in 1..Whole |-> FrameOf(wire.frames[k])]
       /\ engine.buffer = SubSeq(Bytes(wire.frames), EndOffset(Whole) + 1, Delivered)
       /\ engine.exc = None
       /\ transport_closed = 0
       /\ wire.stream = <<>> => /\ Len(dispatched) = Len(wire.frames)
                                /\ engine.buffer = <<>>

\* of two frames the first was dispatched and the second is retained up to the
\* octet before its frame-end, after three chunks
C17_Witness ==
    /\ Len(wire.frames) = 2
    /\ \A i \in DOMAIN wire.frames : WellFormed(wire.frames[i])
    /\ wire.frames[2].frame.payload = RawConnectionOpenOK
    /\ wire.chunks = 3
    /\ Len(wire.stream) = 1
    /\ Len(dispatched) = 1
    /\ Len(engine.buffer) = 12

\* the first frame of the stream that does not end in the frame-end octet
FirstBad ==
    CHOOSE j \in DOMAIN wire.frames :
        /\ wire.frames[j].frame_end # FRAME_END
        /\ \A i \in 1..(j - 1) : wire.frames[i].frame_end = FRAME_END

\* C18: when a frame whose terminating octet is not 0xCE has arrived (after
\* frames that were dispatched without error), the protocol has raised
\* AMQPError and closed the transport, and neither that frame nor anything
\* after it was dispatched; before its last octet arrives no error is raised.
C18_BadFrameEnd ==
    ((\E j \in DOMAIN wire.frames : wire.frames[j].frame_end # FRAME_END)
        /\ \A i \in 1..(FirstBad - 1) : WellFormed(wire.frames[i]))
    => IF EndOffset(FirstBad) <= Delivered
       THEN /\ engine.exc = "AMQPError"
            /\ transport_closed = 1
            /\ dispatched = [k \in 1..(FirstBad - 1) |-> FrameOf(wire.frames[k])]
            /\ Len(ready) <= FirstBad - 1
       ELSE /\ engine.exc = None
            /\ transport_closed = 0

\* a good frame was dispatched, then a frame ending in 0xCD arrived
C18_Witness ==
    /\ Len(wire.frames) = 2
    /\ wire.frames[1].frame_end = FRAME_END
    /\ wire.frames[2].frame_end # FRAME_END
    /\ engine.exc = "AMQPError"
    /\ transport_closed = 1
    /\ Len(dispatched) = 1
    /\ wire.stream = <<>>

\* the frames handed to dispatch that are no heartbeat and have a handler
Handled ==
    SelectSeq(dispatched, LAMBDA frame : frame.type # "HeartbeatFrame"
                                         /\ frame.channel_id \in DOMAIN handlers)

\* C19: the handler calls made are, in the order of the frames handed to
\* dispatch, one call per frame that is no heartbeat, to the handler registered
\* for the frame's channel id and to no other; a heartbeat frame makes no call
\* and raises nothing, whatever handlers are registered.
C19_DispatchOneHandler ==
    /\ ready = [i \in DOMAIN Handled |->
                  [cb |-> IF Handled[i].channel_id = 0 THEN "handle" ELSE "channel.handle",
                   frame |-> Handled[i],
                   task |-> Handled[i].channel_id]]
    /\ \A i \in DOMAIN dispatched :
          dispatched[i].type = "HeartbeatFrame"
          => (i < Len(dispatched) \/ engine.exc # "KeyError")

\* a frame of channel 1, then a heartbeat: one call, to the handler of channel 1
C19_Witness ==
    /\ Len(dispatched) = 2
    /\ dispatched[1].channel_id = 1
    /\ dispatched[2] = HeartbeatFrame
    /\ Len(ready) = 1
    /\ ready[1].task = 1
    /\ ready[1].cb = "channel.handle"
    /\ engine.exc = None
    /\ wire.stream = <<>>

C30_ReturnedCloseIsClosed ==
    \A t \in Tasks : pc[t] = "returned" => connection_exc # None

\* ---- the handshake of HandshakeFairSpec
\* the handle callbacks of the actor waiting in the loop's queue
HandleCalls == {i \in DOMAIN ready : ready[i].cb = "handle"}
\* the server has sent so far what a server sends, in its order
InOrder ==
    \E tune \in Tunes :
        LET order == <<MethodFrame(0, ConnectionStart), MethodFrame(0, tune),
                       MethodFrame(0, ConnectionOpenOK)>>
        IN  /\ Len(arrived) <= 3
            /\ arrived = SubSeq(order, 1, Len(arrived))

\* C29: when the server has sent ConnectionStart, ConnectionTune and
\* ConnectionOpenOK in that order, whenever each of them arrived,
\* open_connection eventually returns. While the server sends in that order
\* the actor is handed one frame at a time, and the method it is handed has
\* its await registered.
C29_HandshakeCompletes ==
    /\ (InOrder /\ Len(arrived) = 3) ~> (oc = "returned")
    /\ [](InOrder => Cardinality(HandleCalls) <= 1)
    /\ [][(InOrder /\ (handle_ConnectionStart \/ handle_ConnectionTune
                           \/ handle_ConnectionOpenOK))
            => /\ futures[HandlerName(Head(ready).frame)] # <<>>
               /\ futs[Head(futures[HandlerName(Head(ready).frame)]).fut] = Pending
               /\ futs'[Head(futures[HandlerName(Head(ready).frame)]).fut].st = "result"]_vars

\* the three methods arrived before open_connection had been resumed once,
\* and it has returned
C29_Witness ==
    /\ InOrder
    /\ Len(arrived) = 3
    /\ oc = "returned"
    /\ Len(sent) = 4
    /\ hb = "running"

\* all three methods have arrived while open_connection still awaits
\* ConnectionStart
C29_EarlyArrival ==
    /\ InOrder
    /\ Len(arrived) = 3
    /\ oc = "awaitStart"
    /\ Len(reader.pending_frames) = 2

\* bit i (counted from the lowest) of an octet
Bit(octet, i) == (octet \div 2^i) % 2

\* C28: pack_bools packs b_0..b_N lowest bit first: the octets are one for
\* every eight booleans, bit i of octet j is set exactly when b_(8j+i) is true
\* and the bits past the last boolean are clear; [true, false, true] gives
\* 0x05 and eight trues give 0xFF.
C28_PackBoolsLSBFirst ==
    /\ packed # <<>>
       => /\ Len(packed) = (Len(bools) + 7) \div 8
          /\ \A j \in DOMAIN packed :
                /\ packed[j] \in 0..255
                /\ \A i \in 0..7 :
                      Bit(packed[j], i) = 1
                      <=> (8 * (j - 1) + i + 1 <= Len(bools) /\ bools[8 * (j - 1) + i + 1])
    /\ (bools = <<TRUE, FALSE, TRUE>> /\ packed # <<>>) => packed = <<5>>
    /\ (bools = [i \in 1..8 |-> TRUE] /\ packed # <<>>) => packed = <<255>>

\* nine booleans, the second and the ninth true, were packed into two octets
C28_Witness ==
    /\ bools = [i \in 1..9 |-> i \in {2, 9}]
    /\ packed = <<2, 1>>

\* C27: every inbound frame, heartbeat or not, resets the receive timer; the
\* connection is declared lost, by a poison pill whose cause is the heartbeat
\* timeout, at the moment no frame has been received for twice the interval
\* and not before; with the interval 0 it is never declared lost.
C27_HeartbeatTimeout ==
    /\ [][(\E frame \in MonitorFrames : InboundFrame(frame))
            => monitor'.idle = 0]_vars
    /\ [](lost # None <=> (monitor.interval > 0 /\ monitor.idle = 2 * monitor.interval))
    /\ [](monitor.idle <= 2 * monitor.interval \/ monitor.interval = 0)
    /\ [](monitor.interval = 0 => lost = None)
    /\ [][(lost = None /\ lost' # None)
            => /\ lost' = "HeartbeatTimeout"
               /\ ready' = Append(ready, Callback("handle",
                      PoisonPillFrame(ConnectionLostError("HeartbeatTimeout")), 0))
               /\ original_exc(ready'[Len(ready')].frame.exception) = "HeartbeatTimeout"]_vars

\* with the interval 1, two frames kept the connection up for two seconds;
\* then two seconds without a frame had it declared lost, and the actor has
\* failed the connection with the timeout
C27_Witness ==
    /\ monitor = [interval |-> 1, idle |-> 2, now |-> 4]
    /\ nframes = 2
    /\ lost = "HeartbeatTimeout"
    /\ connection_exc = ConnectionLostError("HeartbeatTimeout")
    /\ closing

\* with the interval 0 no frame arrived for the whole time and nothing is lost
C27_Disabled ==
    /\ monitor = [interval |-> 0, idle |-> MaxTime, now |-> MaxTime]
    /\ lost = None

\* C26: opening a channel allocates the lowest positive id that no open
\* channel uses, never one above the negotiated channel_max (unless that is
\* 0); the id of a closed channel is free again (the handlers are those of
\* channel 0 and of the open channels).
C26_ChannelIds ==
    /\ [][OpenChannel
            => \E c \in DOMAIN channels' \ DOMAIN channels :
                  /\ DOMAIN channels' = DOMAIN channels \cup {c}
                  /\ c >= 1
                  /\ \A d \in 1..(c - 1) : d \in DOMAIN channels
                  /\ NegotiatedChannelMax = 0 \/ c <= NegotiatedChannelMax]_vars
    /\ [](DOMAIN handlers = {0} \cup DOMAIN channels)
    /\ [](NegotiatedChannelMax = 0
            \/ \A c \in DOMAIN channels : c <= NegotiatedChannelMax)

\* ------------------------------------------------------------ queued consumer
UpTo(n) == [i \in 1..n |-> i]
\* the consumer dropped what it had buffered
Discarded == consumer.state = "Closed" /\ ~consumer.no_ack
\* the step is a call of get() or getmany()
GetCalled == Len(gets') = Len(gets) + 1
NewCall == gets'[Len(gets')]
\* the future holds result v; it failed with exc
IsResult(f, v) == f.st = "result" /\ f.val = v
IsFailed(f, exc) == f.st = "exception" /\ f.val = exc
\* call i was of the given kind, made when the consumer had recorded exception
\* when, and returned v; or raised exc
CallReturned(i, kind, when, v) ==
    /\ i \in DOMAIN gets
    /\ gets[i].kind = kind
    /\ gets[i].when = when
    /\ IsResult(gets[i].fut, v)
CallRaised(i, kind, when, exc) ==
    /\ i \in DOMAIN gets
    /\ gets[i].kind = kind
    /\ gets[i].when = when
    /\ IsFailed(gets[i].fut, exc)

\* C21: a queued consumer is a FIFO. Unless it discarded its buffer, what was
\* returned followed by what is buffered is exactly the deliveries in arrival
\* order (each once); getmany() on a buffer that is not empty returns the whole
\* buffer in order and leaves it empty; get()/getmany() on the empty buffer of
\* an active consumer wait, and a waiting call returns only in the step in
\* which a delivery arrives, with that delivery.
C21_QueuedFIFO ==
    /\ [](~Discarded => returned \o consumer.buffer = UpTo(consumer.delivered))
    /\ [][GetCalled /\ NewCall.kind = "getmany" /\ consumer.buffer # <<>>
            => /\ IsResult(NewCall.fut, consumer.buffer)
               /\ consumer'.buffer = <<>>]_vars
    /\ [][GetCalled /\ NewCall.kind = "get" /\ consumer.buffer # <<>>
            => /\ IsResult(NewCall.fut, Head(consumer.buffer))
               /\ consumer'.buffer = Tail(consumer.buffer)]_vars
    /\ [][GetCalled /\ consumer.buffer = <<>> /\ consumer.state = "Active"
            => ~Done(NewCall.fut)]_vars
    /\ [][\A i \in DOMAIN gets :
            ~Done(gets[i].fut) /\ gets'[i].fut.st = "result"
            => /\ consumer'.delivered = consumer.delivered + 1
               /\ IsResult(gets'[i].fut, result_of(gets[i].kind,
                                                 <<consumer'.delivered>>))]_vars

\* three deliveries were buffered, get() returned the first, getmany() the
\* other two, and a further get() is waiting on the active consumer
C21_Witness ==
    /\ consumer.state = "Active"
    /\ consumer.buffer = <<>>
    /\ returned = <<1, 2, 3>>
    /\ Len(gets) = 3
    /\ CallReturned(1, "get", None, 1)
    /\ CallReturned(2, "getmany", None, <<2, 3>>)
    /\ gets[3].kind = "get"
    /\ ~Done(gets[3].fut)

\* a getmany() that waited was handed the delivery that arrived, as a sequence
C21_WaiterServed ==
    /\ CallReturned(1, "getmany", None, <<1>>)
    /\ consumer.delivered = 1
    /\ returned = <<1>>

\* cancel() of the consumer has completed
CancelDone == consumer.state = "ClientCancelled" /\ consumer.exc = "ConsumerCancelled"

\* C22: when cancel() completes the buffer is kept; from then on get() returns
\* the oldest buffered delivery and getmany() all of them, in order, nothing
\* is added to the buffer, and on the empty buffer get()/getmany() raise
\* ConsumerCancelled at once: no call is left waiting.
C22_CancelKeepsBuffer ==
    /\ [][~CancelDone /\ CancelDone' => consumer'.buffer = consumer.buffer]_vars
    /\ [][CancelDone /\ GetCalled /\ consumer.buffer # <<>>
            => IF NewCall.kind = "get"
               THEN /\ IsResult(NewCall.fut, Head(consumer.buffer))
                    /\ consumer'.buffer = Tail(consumer.buffer)
               ELSE /\ IsResult(NewCall.fut, consumer.buffer)
                    /\ consumer'.buffer = <<>>]_vars
    /\ [][CancelDone /\ GetCalled /\ consumer.buffer = <<>>
            => IsFailed(NewCall.fut, "ConsumerCancelled")]_vars
    /\ [][CancelDone /\ ~GetCalled => consumer'.buffer = consumer.buffer]_vars
    /\ [](CancelDone => \A i \in DOMAIN gets : Done(gets[i].fut))

\* two deliveries were buffered when cancel() completed; afterwards get()
\* returned the first, getmany() the second, and the next get() raised
C22_Witness ==
    /\ CancelDone
    /\ returned = <<1, 2>>
    /\ CallReturned(1, "get", "ConsumerCancelled", 1)
    /\ CallReturned(2, "getmany", "ConsumerCancelled", <<2>>)
    /\ CallRaised(3, "get", "ConsumerCancelled", "ConsumerCancelled")

\* the step in which the client's close of the connection reaches the consumer
ClosesNow == consumer.state # "Closed" /\ consumer'.state = "Closed"
ClosedNoAck == consumer.state = "Closed" /\ consumer.no_ack
ClosedAck == consumer.state = "Closed" /\ ~consumer.no_ack

\* C23: with no_ack=true the close of the connection by the client keeps the
\* buffer; afterwards each get() returns the oldest buffered delivery, nothing
\* else changes the buffer, and get() on the empty buffer raises
\* ClientConnectionClosed: n buffered deliveries are returned by the next n
\* get() calls in order and the one after raises.
C23_NoAckDrains ==
    /\ [][ClosesNow /\ consumer.no_ack
            => consumer'.buffer = consumer.buffer]_vars
    /\ [][ClosedNoAck /\ GetCalled /\ NewCall.kind = "get" /\ consumer.buffer # <<>>
            => /\ IsResult(NewCall.fut, Head(consumer.buffer))
               /\ consumer'.buffer = Tail(consumer.buffer)]_vars
    /\ [][ClosedNoAck /\ GetCalled /\ consumer.buffer = <<>>
            => IsFailed(NewCall.fut, "ClientConnectionClosed")]_vars
    /\ [][ClosedNoAck /\ ~GetCalled => consumer'.buffer = consumer.buffer]_vars

\* two deliveries were buffered when the client closed the connection; the
\* next two get() calls returned them and the third raised
C23_Witness ==
    /\ ClosedNoAck
    /\ returned = <<1, 2>>
    /\ CallReturned(1, "get", "ClientConnectionClosed", 1)
    /\ CallReturned(2, "get", "ClientConnectionClosed", 2)
    /\ CallRaised(3, "get", "ClientConnectionClosed", "ClientConnectionClosed")

\* C24: with no_ack=false the close of the connection by the client empties
\* the buffer; from then on the buffer stays empty, every get()/getmany()
\* raises ClientConnectionClosed at once, and no delivery is returned any more.
C24_AckDiscards ==
    /\ [][ClosesNow /\ ~consumer.no_ack => consumer'.buffer = <<>>]_vars
    /\ [](ClosedAck => consumer.buffer = <<>>)
    /\ [][ClosedAck /\ GetCalled
            => IsFailed(NewCall.fut, "ClientConnectionClosed")]_vars
    /\ [][ClosedAck => returned' = returned]_vars

\* two deliveries had arrived and none had been returned when the client
\* closed the connection; get() and getmany() called afterwards both raised
C24_Witness ==
    /\ ClosedAck
    /\ consumer.delivered = 2
    /\ returned = <<>>
    /\ CallRaised(1, "get", "ClientConnectionClosed", "ClientConnectionClosed")
    /\ CallRaised(2, "getmany", "ClientConnectionClosed", "ClientConnectionClosed")

ServerCancelled == consumer.state = "ServerCancelled"
\* a call that was waiting when the consumer was cancelled
WaitedAtCancel(i) == gets[i].when = None /\ IsFailed(gets[i].fut, "ConsumerCancelled")

NoWaiters == \A m \in Methods : futures[m] = <<>>
\* the step is a call of await
AwaitCalled == Len(futs') = Len(futs) + 1

\* C31: whenever the Synchroniser has a failure exception recorded, every
\* waiter queue is empty; an await called then leaves the queues as they are
\* and returns a future already failed with the recorded exception.
C31_KilledHasNoWaiters ==
    /\ [](connection_exc # None => NoWaiters)
    /\ [][connection_exc # None /\ AwaitCalled
            => /\ futures' = futures
               /\ futs'[Len(futs')].st = "exception"
               /\ futs'[Len(futs')].val = connection_exc]_vars

\* killall(ClientConnectionClosed) failed the first await; the second await
\* was called after killall(ServerConnectionClosed), failed at once and left
\* no record
C31_Witness ==
    /\ connection_exc = "ServerConnectionClosed"
    /\ Len(futs) = 2
    /\ IsFailed(futs[1], "ClientConnectionClosed")
    /\ IsFailed(futs[2], "ServerConnectionClosed")
    /\ NoWaiters

C32_Replaced ==
    /\ sent = <<ClientClose, send_CloseOK>>
    /\ connection_exc = "ClientConnectionClosed"
    /\ transport_closed = 1

\* C33: whenever the connection's Synchroniser has a failure exception
\* recorded, the connection's closing flag is set.
C33_FailedIsClosing == connection_exc # None => closing

\* how many ConnectionClose methods the client has sent
ClosesSent(s) == Cardinality({i \in DOMAIN s : s[i] = ClientClose})

\* C37: the client sends ConnectionClose at most once, and no step taken with
\* the closing flag set (by close() itself, by a server close or by a poison
\* pill) sends one.
C37_CloseSentOnce ==
    /\ [](ClosesSent(sent) <= 1)
    /\ [][closing => ClosesSent(sent') = ClosesSent(sent)]_vars

\* two tasks have called close(): the first sent ConnectionClose and waits,
\* the second sent nothing and returned
C37_Witness ==
    /\ pc[1] = "awaiting"
    /\ pc[2] = "returned"
    /\ sent = <<ClientClose>>

\* close() was called after the poison pill had set the closing flag: nothing
\* was sent
C37_AfterPoisonPill ==
    /\ lost # None
    /\ closing
    /\ pc[1] \in {"gathering", "returned"}
    /\ taskFut[1] = 0
    /\ sent = <<>>

\* C34: every completed future that still has a record in a waiter queue is a
\* cancelled one (what notify asserts of a head waiter that is done).
C34_DoneInQueueIsCancelled ==
    \A m \in Methods : \A i \in DOMAIN futures[m] :
        Done(futs[futures[m][i].fut]) => futs[futures[m][i].fut].st = "cancelled"

\* the future keeps its state and its value in the step
SameFuture(f) == futs'[f].st = futs[f].st /\ futs'[f].val = futs[f].val

\* C35: a completion is one-shot. A future that is resolved, failed or
\* cancelled never changes again, and a step that is a notify call resolves at
\* most one future.
C35_OneShot ==
    /\ [][\A f \in DOMAIN futs : Done(futs[f]) => SameFuture(f)]_vars
    /\ [][calls' = calls + 1
            => Cardinality({f \in DOMAIN futs :
                              ~Done(futs[f]) /\ futs'[f].st = "result"}) <= 1]_vars

\* the first await was cancelled and its record then consumed by
\* notify(BasicGetOK); the second was cancelled and its record was still
\* queued when killall ran: both are still cancelled
C35_Witness ==
    /\ awaitLog = <<<<"BasicGetOK">>, <<"BasicGetEmpty">>>>
    /\ futs = <<Cancelled, Cancelled>>
    /\ calls = 1
    /\ matched["BasicGetOK"] = 1
    /\ connection_exc = "ServerConnectionClosed"

\* C36: notify(m, r) with no waiter registered for m raises nothing and
\* leaves the queues, the futures and the recorded exception as they are; the
\* notification is not kept: an await never returns a resolved future, and a
\* future is resolved only in the step of a notify call, with that call's
\* result.
C36_UnexpectedNotifyDropped ==
    /\ [](\A m \in SyncMethods :
            futures[m] = <<>>
            => /\ Notify(Sync, m, calls + 1).raised = None
               /\ Notify(Sync, m, calls + 1).popped = 0)
    /\ [][\A m \in SyncMethods :
            DoNotify(m) /\ futures[m] = <<>>
            => /\ futures' = futures
               /\ futs' = futs
               /\ connection_exc' = connection_exc]_vars
    /\ [][AwaitCalled => futs'[Len(futs')].st \in {"pending", "exception"}]_vars
    /\ [][\A f \in DOMAIN futs :
            ~Done(futs[f]) /\ futs'[f].st = "result"
            => /\ calls' = calls + 1
               /\ futs'[f].val = calls']_vars

\* notify(BasicGetOK) found no waiter and was dropped; the await on BasicGetOK
\* registered afterwards is still pending
C36_Witness ==
    /\ calls = 1
    /\ dropped["BasicGetOK"]
    /\ matched["BasicGetOK"] = 0
    /\ awaitLog = <<<<"BasicGetOK">>>>
    /\ Len(futs) = 1
    /\ ~Done(futs[1])
    /\ Len(futures["BasicGetOK"]) = 1

\* ---------------------------------------------------------- handshake failure
Awaiting == oc \in {"awaitStart", "awaitTune", "awaitOpenOK"}
\* the await open_connection is suspended on has failed
AwaitFailed == Awaiting /\ futs[ocFut].st = "exception"
\* the server sent a prefix of its handshake short of ConnectionOpenOK, in
\* order, and then closed the connection, or the transport was lost
FailedBeforeOpenOK ==
    \E tune \in Tunes : \E k \in 0..2 :
        LET order == <<MethodFrame(0, ConnectionStart), MethodFrame(0, tune)>>
        IN  \/ lost # None /\ arrived = SubSeq(order, 1, k)
            \/ arrived = Append(SubSeq(order, 1, k), MethodFrame(0, ServerClose))

\* C38: when the await open_connection is suspended on fails, open_connection
\* raises; whenever it has raised the handler of channel 0 is removed, and it
\* never returns a connection afterwards; the exception is the one the await
\* failed with. A server that closes the connection, or a transport lost,
\* before ConnectionOpenOK makes the await fail, so open_connection raises
\* rather than hangs.
C38_HandshakeFailure ==
    /\ AwaitFailed ~> (oc = "raised")
    /\ [](oc = "raised" => 0 \notin DOMAIN handlers)
    /\ [][oc = "raised" => oc' = "raised"]_vars
    /\ [][AwaitFailed /\ oc' # oc
            => /\ oc' = "raised"
               /\ futs'[ocFut'].st = "exception"
               /\ futs'[ocFut'].val = connection_exc]_vars
    /\ FailedBeforeOpenOK ~> (oc = "raised")

\* ConnectionStart was answered, then the server closed the connection: the
\* await of ConnectionTune failed with ServerConnectionClosed, open_connection
\* has raised and channel 0 has no handler
C38_Witness ==
    /\ oc = "raised"
    /\ arrived = <<MethodFrame(0, ConnectionStart), MethodFrame(0, ServerClose)>>
    /\ Len(sent) = 3
    /\ sent[3] = send_CloseOK
    /\ connection_exc = "ServerConnectionClosed"
    /\ IsFailed(futs[ocFut], "ServerConnectionClosed")
    /\ handlers = <<>>

\* the transport was lost while open_connection awaited ConnectionStart:
\* open_connection has raised with ConnectionLostError
C38_Lost ==
    /\ oc = "raised"
    /\ arrived = <<>>
    /\ lost = "ConnectionResetError"
    /\ IsFailed(futs[ocFut], ConnectionLostError("ConnectionResetError"))
    /\ handlers = <<>>

====
